---- MODULE Spec2Model ----
(***************************************************************************)
(* RenderLite deployment pipeline and runtime controller.                  *)
(*                                                                         *)
(* One Service row, its Deployment rows, the build and rollback queues,    *)
(* the worker slots that run processDeployment / processRollback, the      *)
(* completion hooks, the cancel handler and the container runtime.         *)
(* Every action is one step between two awaits of the handler it models.   *)
(***************************************************************************)
EXTENDS Integers, Sequences, FiniteSets, TLC

\* ---- bounds -------------------------------------------------------------
MaxDeployments == 2
MaxPlain == 2
MaxCreators == 2
MaxRows == 12
MaxLogs == 2

\* ---- program constants --------------------------------------------------
Concurrency == 2
Attempts == 3
RedrawLimit == 10
MAX_REPO_SIZE_MB == 500
KeepCount == 10
HEALTH_CHECK_RETRIES == 10

\* ---- domains ------------------------------------------------------------
NewDepIds == 1..MaxDeployments
DepIds == 0..MaxDeployments
MaxCid == 1 + 2 * MaxDeployments * Attempts
Cids == 1..MaxCid
Null == 0
Queues == {"build", "rollback"}
Terminal == {"SUCCESS", "FAILED"}
Absent == [name |-> "none", state |-> "absent", image |-> Null]
NoRow == [status |-> "NONE", imageTag |-> Null, commitSha |-> Null, logs |-> "none"]
NoJob == [pc |-> "none", q |-> "none", existing |-> Null, bg |-> FALSE,
          cid |-> Null, res |-> "none", gap |-> FALSE, attempts |-> 0,
          tag |-> Null, logs |-> "", timer |-> "off", events |-> 0,
          workdir |-> FALSE, made |-> {}]
HeadCommit == 1
PrevCommit == 2
RepoSizes == {100, 600}

\* utils/encryption.ts: one secret and its envelope, strings as sequences of
\* characters.
IV_LENGTH == 16
AUTH_TAG_LENGTH == 16
Thrown == [ok |-> FALSE, text |-> <<>>]
NoEnvelope == [pc |-> "none", plain |-> <<>>, value |-> <<>>, altered |-> "none",
               out |-> Thrown]

\* utils/subdomain.ts and POST /services: the requests in flight and the
\* random suffixes they can draw.
Creators == 1..MaxCreators
Suffixes == {1, 2}
NoSignup == [pc |-> "idle", subdomain |-> Null, attempts |-> 0]

\* routes/webhooks.ts: a request is its x-hub-signature-256 header, its
\* x-github-event header and the ref of its body.
NoSignature == <<"missing", 0, <<>>>>
NoWebhook == [signature |-> NoSignature, event |-> "none", ref |-> <<>>, code |-> 0]

\* The realtime path.  Socket 1 belongs to the user who owns the service and
\* its deployment, socket 2 to another user; a room is deployment:<id> or
\* service:<id> of that one deployment and service.
Sockets == {1, 2}
Owner == 1
Rooms == {"deployment", "service"}
LogLines == <<"line1", "line2", "line3">>
NoRealtime == [api |-> "idle", worker |-> "none", lines |-> 0, success |-> FALSE,
               row |-> "NONE", service |-> "CREATED",
               channel |-> <<>>,
               joined |-> [k \in Sockets |-> {}],
               left |-> [k \in Sockets |-> {}],
               received |-> [k \in Sockets |-> <<>>]]

\* socket/index.ts lines 20-47: the sockets joined to service:<id>, whether
\* subscribedServices holds the id, and the tick: its position, the container
\* it read, and what the last tick did with the service.
NoMetrics == [room |-> {}, subscribed |-> FALSE, pc |-> "idle", cid |-> Null,
              last |-> "none"]

\* waitForHealthCheck: the outcome of a probe attempt is a missing container
\* IP, a network error, a timeout, or the status code of the answer.
NoProbe == [pc |-> "none", retries |-> 0, attempt |-> 0, last |-> "none", code |-> 0,
            waits |-> <<>>, result |-> FALSE]
RetriesOptions == {1, 3, HEALTH_CHECK_RETRIES}
StatusCodes == {0, 101, 199, 200, 204, 301, 399, 400, 404, 500}
ProbeFailures == {"noip", "error", "timeout"}

\* Traefik labels: the hostnames a user may attach to the service, each with
\* no Domain row, an unverified row or a verified row.
Hostnames == {"a.example", "b.example", "c.example"}
SubdomainHost == "api-x.renderlite.local"
ContainerNames == {"renderlite-api-x", "renderlite-api-x-new"}
IndexNames == <<"0", "1", "2">>
NoRouting == [pc |-> "idle", rows |-> [h \in Hostnames |-> "none"],
              customDomains |-> <<>>, name |-> "none", tls |-> FALSE, labels |-> {}]

\* cleanupOldDeployments: Deployment rows in creation order (a later row has
\* a larger id and a later createdAt), each owned by one of two services.
RowIds == 1..MaxRows
ServiceIds == {1, 2}
NoRetention == [rows |-> [r \in RowIds |-> "NONE"],
                owner |-> [r \in RowIds |-> 0],
                count |-> 0,
                jobs |-> [r \in RowIds |-> "none"],
                status |-> [s \in ServiceIds |-> "CREATED"],
                pc |-> "idle", cursor |-> 0, toDelete |-> {}]

VARIABLES
  svc,        \* the Service row: status, containerId, updatedAt older than 24 h
  hcPath,     \* Service.healthCheckPath is configured
  repoMb,     \* the size of the repository at Service.repoUrl once cloned, in MiB
  dep,        \* Deployment rows by id
  waiting,    \* per queue, the FIFO of job ids not yet leased
  job,        \* per deployment id, the job: position in the pipeline and locals
  containers, \* the container runtime: id -> name and state
  nextCid,    \* next container id the runtime hands out
  cancel,     \* the cancel request in flight
  sweep,      \* the reconciler run in flight: position and what it read
  hub,        \* the metrics hub's sample in flight: position and what it read
  resp,       \* the error answer of the rollback route, once it has given one
  lastEvent,  \* the last service:status event sent to the room service:<id>
  envelope,   \* one secret on its way through encrypt, the store and decrypt
  taken,      \* per subdomain, the number of Service rows that hold it
  signup,     \* per POST /services request in flight, its position and locals
  webhook,    \* the last webhook request answered and its answer
  retention,  \* the Deployment rows of two services, their jobs, and the
              \* cleanupOldDeployments run in flight
  realtime,   \* one deployment's events on their way from the API process and
              \* the worker through the Redis channel and the rooms to the sockets
  metrics,    \* the room service:<id>, the hub's subscribedServices entry of
              \* the service, and the metrics tick in flight
  probe,      \* one call of waitForHealthCheck: its options, position, attempt
              \* counter, the sleeps it made and its return value
  routing     \* the Domain rows of the service and one runContainer call of a
              \* pipeline: the domains it passes and the labels it builds

reconcilerVars == <<sweep, hub>>

auxVars == <<retention, realtime, metrics, probe, routing>>

utilVars == <<envelope, taken, signup, webhook, auxVars>>

vars == <<svc, hcPath, repoMb, dep, waiting, job, containers, nextCid, cancel, sweep, hub,
          resp, lastEvent, envelope, taken, signup, webhook, retention, realtime, metrics, probe, routing>>

coreVars == <<svc, hcPath, repoMb, dep, waiting, job, containers, nextCid, cancel, sweep, hub,
              resp, lastEvent, envelope, taken, signup, webhook>>

\* ---- container runtime --------------------------------------------------
Named(cs, n) == {c \in Cids : cs[c].state # "absent" /\ cs[c].name = n}

Routed(cs) == \E c \in Cids : cs[c].state = "running"

\* stopContainer: 10 s graceful stop; 304 (already stopped) is tolerated,
\* 404 is thrown to the caller, who ignores it.
stopContainer(cs, c) ==
  IF c # Null /\ cs[c].state = "running"
  THEN [cs EXCEPT ![c].state = "exited"]
  ELSE cs

\* A remove that stops the container and leaves it in place.
removeContainerStopOnly(cs, c) == stopContainer(cs, c)

\* removeContainer: stop (errors ignored), then force remove; a 404 of the
\* remove is thrown to the caller.
removeContainer(cs, c) ==
  IF c # Null /\ cs[c].state # "absent"
  THEN [cs EXCEPT ![c] = Absent]
  ELSE cs

\* runContainer lines 68-74: stop() then remove() of the container bearing
\* the target name, inside one try: a running one is stopped and removed,
\* an exited one makes stop() throw 304 and remove() is skipped.
ReplaceNamed(cs, n) ==
  [c \in Cids |-> IF cs[c].name = n /\ cs[c].state = "running" THEN Absent ELSE cs[c]]

\* createContainer throws 409 when the name is still taken.
CreateOk(cs, n) == Named(ReplaceNamed(cs, n), n) = {}

runContainer(cs, n, id, img) ==
  [ReplaceNamed(cs, n) EXCEPT ![id] = [name |-> n, state |-> "running", image |-> img]]

\* The steps of a pipeline that call runContainer, and the name each passes:
\* renderlite-<subdomain>-new in the blue/green staging step, else the
\* canonical renderlite-<subdomain>.
RunSteps == {"run", "runstaging", "runcanon"}

NameOfStep(pc) == IF pc = "runstaging" THEN "new" ELSE "canonical"

\* ---- initial states -----------------------------------------------------
\* Either a fresh service, or a service whose first deployment D0 succeeded
\* on an earlier commit and left container 1 running under the canonical name.
InitFresh ==
  /\ svc = [status |-> "CREATED", containerId |-> Null, old |-> FALSE]
  /\ dep = [d \in DepIds |-> NoRow]
  /\ containers = [c \in Cids |-> Absent]
  /\ nextCid = 1

InitRunning ==
  /\ svc = [status |-> "RUNNING", containerId |-> 1, old |-> FALSE]
  /\ dep = [d \in DepIds |->
              IF d = 0
              THEN [status |-> "SUCCESS", imageTag |-> PrevCommit,
                    commitSha |-> PrevCommit, logs |-> "pipeline"]
              ELSE NoRow]
  /\ containers = [c \in Cids |->
                     IF c = 1 THEN [name |-> "canonical", state |-> "running",
                                    image |-> PrevCommit]
                     ELSE Absent]
  /\ nextCid = 2

InitAux ==
  /\ retention = NoRetention
  /\ realtime = NoRealtime
  /\ metrics = NoMetrics
  /\ probe = NoProbe
  /\ routing = NoRouting

InitUtil ==
  /\ envelope = NoEnvelope
  /\ taken = [s \in Suffixes |-> 0]
  /\ signup = [p \in Creators |-> NoSignup]
  /\ webhook = NoWebhook
  /\ InitAux

InitRest ==
  /\ waiting = [q \in Queues |-> <<>>]
  /\ job = [d \in DepIds |-> NoJob]
  /\ cancel = [pc |-> "idle", d |-> 0]
  /\ sweep = [pc |-> "idle", cid |-> Null, status |-> "none", pair |-> 0]
  /\ hub = [pc |-> "idle", cid |-> Null]
  /\ resp = "none"
  /\ lastEvent = "none"

Init ==
  /\ hcPath \in BOOLEAN
  /\ repoMb = 100
  /\ (InitFresh \/ InitRunning)
  /\ InitRest
  /\ InitUtil

\* ---- ingress ------------------------------------------------------------
FreeIds == {d \in NewDepIds : dep[d].status = "NONE"}

\* An id that may belong to an existing row.
NewIdReused == CHOOSE d \in NewDepIds : TRUE

\* prisma.deployment.create: the id of the row the request creates.
NewId == CHOOSE d \in FreeIds : \A e \in FreeIds : d <= e

Touch(s) == [s EXCEPT !.old = FALSE]

\* queue.add(name, data, { jobId }): a jobId that is already pending in the
\* queue is not added a second time.
enqueue(w, q, id) ==
  IF \E i \in 1..Len(w[q]) : w[q][i] = id
  THEN w
  ELSE [w EXCEPT ![q] = Append(@, id)]

\* deploymentRouter.post('/') and the webhook push: create the row QUEUED,
\* set the service DEPLOYING, enqueue on the build queue with jobId = row id.
Trigger ==
  /\ FreeIds # {}
  /\ dep' = [dep EXCEPT ![NewId] = [NoRow EXCEPT !.status = "QUEUED"]]
  /\ svc' = Touch([svc EXCEPT !.status = "DEPLOYING"])
  /\ waiting' = enqueue(waiting, "build", NewId)
  /\ job' = [job EXCEPT ![NewId] = [NoJob EXCEPT !.pc = "waiting", !.q = "build"]]
  /\ UNCHANGED <<hcPath, repoMb, containers, nextCid, cancel, reconcilerVars, resp, utilVars>>
  /\ lastEvent' = "DEPLOYING"

\* The validation with the status test left out.
RollbackValidAnyStatus(t) == dep[t].status # "NONE"

\* lines 264-274: the target exists, is SUCCESS and carries an imageTag.
RollbackValid(t) ==
  /\ dep[t].status # "NONE"
  /\ dep[t].status = "SUCCESS"
  /\ dep[t].imageTag # Null

\* lines 268-274 throwing 400 for an existing target that is not SUCCESS or
\* has no imageTag; nothing has been written yet.
RollbackRejected(t) ==
  /\ dep[t].status # "NONE"
  /\ ~RollbackValid(t)
  /\ resp' = "400"
  /\ UNCHANGED <<utilVars, svc, hcPath, repoMb, dep, waiting, job, containers, nextCid, cancel, reconcilerVars,
                 lastEvent>>

\* The rollback route creating its row without the target's imageTag and
\* commitSha.
RollbackRowWithoutImage(t) ==
  /\ FreeIds # {}
  /\ RollbackValid(t)
  /\ dep' = [dep EXCEPT ![NewId] = [NoRow EXCEPT !.status = "QUEUED"]]
  /\ svc' = Touch([svc EXCEPT !.status = "DEPLOYING"])
  /\ waiting' = enqueue(waiting, "rollback", NewId)
  /\ job' = [job EXCEPT ![NewId] = [NoJob EXCEPT !.pc = "waiting", !.q = "rollback",
                                                 !.tag = dep[t].imageTag]]
  /\ UNCHANGED <<hcPath, repoMb, containers, nextCid, cancel, reconcilerVars, resp, utilVars>>
  /\ lastEvent' = "DEPLOYING"

\* deploymentRouter.post('/:id/rollback'): the target must be SUCCESS and
\* carry an imageTag; the new row copies imageTag and commitSha.
Rollback(t) ==
  /\ FreeIds # {}
  /\ RollbackValid(t)
  /\ dep' = [dep EXCEPT ![NewId] = [NoRow EXCEPT !.status = "QUEUED",
                                                 !.imageTag = dep[t].imageTag,
                                                 !.commitSha = dep[t].commitSha]]
  /\ svc' = Touch([svc EXCEPT !.status = "DEPLOYING"])
  /\ waiting' = enqueue(waiting, "rollback", NewId)
  /\ job' = [job EXCEPT ![NewId] = [NoJob EXCEPT !.pc = "waiting", !.q = "rollback",
                                                 !.tag = dep[t].imageTag]]
  /\ UNCHANGED <<hcPath, repoMb, containers, nextCid, cancel, reconcilerVars, resp, utilVars>>
  /\ lastEvent' = "DEPLOYING"

\* deploymentRouter.post('/:id/cancel'), lines 199-216: read the row and
\* reject anything that is not QUEUED.
CancelRead(d) ==
  /\ cancel.pc = "idle"
  /\ dep[d].status = "QUEUED"
  /\ cancel' = [pc |-> "remove", d |-> d]
  /\ UNCHANGED <<svc, hcPath, repoMb, dep, waiting, job, containers, nextCid, reconcilerVars, resp, utilVars, lastEvent>>

\* queue.get / job.remove on the build queue: a waiting job is removed, a
\* leased job makes remove() throw, a job that is not pending is not found.
InBuildQueue(d) == \E i \in 1..Len(waiting["build"]) : waiting["build"][i] = d

LeasedInBuild(d) ==
  /\ job[d].q = "build"
  /\ job[d].pc \notin {"none", "waiting", "ret", "hooksvc", "done", "cancelled",
                       "failed", "failedsvc"}

RemoveFromBuild(d) ==
  [waiting EXCEPT !["build"] = SelectSeq(@, LAMBDA x : x # d)]

\* lines 218-230: buildQueue.getJob(id), job.remove(), then the Deployment
\* row is written FAILED with the log 'Deployment cancelled by user'.
CancelRemove(d) ==
  /\ cancel.pc = "remove"
  /\ cancel.d = d
  /\ IF LeasedInBuild(d)
     THEN /\ cancel' = [pc |-> "idle", d |-> 0]
          /\ UNCHANGED <<dep, waiting, job>>
     ELSE /\ waiting' = RemoveFromBuild(d)
          /\ job' = IF InBuildQueue(d)
                    THEN [job EXCEPT ![d].pc = "cancelled"]
                    ELSE job
          /\ dep' = [dep EXCEPT ![d].status = "FAILED", ![d].logs = "cancelled"]
          /\ cancel' = [pc |-> "service", d |-> d]
  /\ UNCHANGED <<svc, hcPath, repoMb, containers, nextCid, reconcilerVars, resp, utilVars, lastEvent>>

\* lines 232-241: the Service row is written FAILED and the handler answers.
CancelService(d) ==
  /\ cancel.pc = "service"
  /\ cancel.d = d
  /\ svc' = Touch([svc EXCEPT !.status = "FAILED"])
  /\ cancel' = [pc |-> "idle", d |-> 0]
  /\ job' = [job EXCEPT ![d].events = @ + 1]
  /\ UNCHANGED <<hcPath, repoMb, dep, waiting, containers, nextCid, reconcilerVars, resp, utilVars>>
  /\ lastEvent' = "FAILED"

\* ---- workers ------------------------------------------------------------
Active(q) == {d \in DepIds : job[d].q = q /\
                job[d].pc \notin {"none", "waiting", "ret", "hooksvc", "done", "cancelled",
                                  "failed", "failedsvc"}}

\* The worker leases the head of its queue when a slot is free.
Lease(q) ==
  /\ waiting[q] # <<>>
  /\ Cardinality(Active(q)) < Concurrency
  /\ job' = [job EXCEPT ![Head(waiting[q])].pc = "leased",
                        ![Head(waiting[q])].attempts = @ + 1]
  /\ waiting' = [waiting EXCEPT ![q] = Tail(@)]
  /\ UNCHANGED <<svc, hcPath, repoMb, dep, containers, nextCid, cancel, reconcilerVars, resp, utilVars, lastEvent>>

\* cloneRepository lines 36-38: a timer that has not fired is disarmed.
clearTimeout(t) == IF t = "armed" THEN "off" ELSE t

\* An appendLog that keeps nothing.
appendLogDropped(l) == l

\* appendLog, lines 20-23 / 249-252: the job's logs, empty or not.
appendLog(l) == "lines"

\* The two returns of a failed health check, which find lines in logs, and
\* the catch block, lines 206-220 / 367-371, which appends one and deletes
\* the work directory.
Return(d, r) ==
  job' = [job EXCEPT ![d].pc = "ret", ![d].res = r,
                     ![d].logs = IF r = "error" THEN appendLog(@) ELSE @,
                     ![d].timer = clearTimeout(@),
                     ![d].workdir = IF r = "error" THEN FALSE ELSE @]

\* processDeployment lines 26-42 / processRollback lines 256-261; a build
\* job makes its work directory (line 33) and goes on into cloneRepository, which arms its timer (clone.ts lines
\* 23-26) and waits for git.clone.
PInit(d) ==
  /\ job[d].pc = "leased"
  /\ dep' = [dep EXCEPT ![d].status = "BUILDING"]
  /\ job' = [job EXCEPT ![d].pc = IF job[d].q = "build" THEN "clone" ELSE "readsvc",
                        ![d].logs = appendLog(@),
                        ![d].timer = IF job[d].q = "build" THEN "armed" ELSE @,
                        ![d].workdir = (job[d].q = "build") \/ @]
  /\ UNCHANGED <<svc, hcPath, repoMb, waiting, containers, nextCid, cancel, reconcilerVars, resp, utilVars, lastEvent>>

\* lines 42-51: clone, read the commit, persist commitSha; a throw goes to
\* the catch block, which returns success = false.
PClone(d) ==
  /\ job[d].pc = "clone"
  /\ \E ok \in BOOLEAN :
       IF ok
       THEN /\ dep' = [dep EXCEPT ![d].commitSha = HeadCommit]
            /\ job' = [job EXCEPT ![d].pc = "build", ![d].timer = clearTimeout(@)]
       ELSE /\ Return(d, "error")
            /\ UNCHANGED dep
  /\ UNCHANGED <<svc, hcPath, repoMb, waiting, containers, nextCid, cancel, reconcilerVars, resp, utilVars, lastEvent>>

\* The build step with the imageTag neither persisted nor returned.
PBuildWithoutTag(d) ==
  /\ job[d].pc = "build"
  /\ \E ok \in BOOLEAN :
       IF ok
       THEN /\ job' = [job EXCEPT ![d].pc = "readsvc"]
            /\ UNCHANGED dep
       ELSE /\ Return(d, "error")
            /\ UNCHANGED dep
  /\ UNCHANGED <<svc, hcPath, repoMb, waiting, containers, nextCid, cancel, reconcilerVars, resp, utilVars, lastEvent>>

\* lines 54-73: build the image and persist imageTag.
PBuild(d) ==
  /\ job[d].pc = "build"
  /\ \E ok \in BOOLEAN :
       IF ok
       THEN /\ dep' = [dep EXCEPT ![d].imageTag = dep[d].commitSha]
            /\ job' = [job EXCEPT ![d].pc = "readsvc", ![d].tag = dep[d].commitSha]
       ELSE /\ Return(d, "error")
            /\ UNCHANGED dep
  /\ UNCHANGED <<svc, hcPath, repoMb, waiting, containers, nextCid, cancel, reconcilerVars, resp, utilVars, lastEvent>>

\* The mode test with the health check path left out.
useBlueGreenIgnoringPath(existing, path) == existing # Null

\* line 90 / line 275.
useBlueGreen(existing, path) == existing # Null /\ path

\* lines 83-90 / 270-275: read Service.containerId and choose the mode.
PReadService(d) ==
  /\ job[d].pc = "readsvc"
  /\ LET bg == useBlueGreen(svc.containerId, hcPath)
     IN job' = [job EXCEPT ![d].existing = svc.containerId,
                           ![d].bg = bg,
                           ![d].pc = IF bg THEN "runstaging"
                                     ELSE IF svc.containerId # Null THEN "stopold"
                                     ELSE "run"]
  /\ UNCHANGED <<svc, hcPath, repoMb, dep, waiting, containers, nextCid, cancel, reconcilerVars, resp, utilVars, lastEvent>>

\* ---- blue/green branch -----------------------------------------------------
\* lines 96-102 / 280-286: runContainer under renderlite-<subdomain>-new.
PRunStaging(d) ==
  /\ job[d].pc = "runstaging"
  /\ IF CreateOk(containers, "new")
     THEN /\ containers' = runContainer(containers, "new", nextCid, job[d].tag)
          /\ nextCid' = nextCid + 1
          /\ job' = [job EXCEPT ![d].cid = nextCid, ![d].pc = "health",
                                ![d].made = @ \cup {nextCid}]
     ELSE /\ Return(d, "error")
          /\ UNCHANGED <<containers, nextCid>>
  /\ UNCHANGED <<svc, hcPath, repoMb, dep, waiting, cancel, reconcilerVars, resp, utilVars, lastEvent>>

\* waitForHealthCheck: true only when some probe of the container answered
\* 2xx/3xx; a container that is gone or not running has no IP and every
\* attempt fails.
CanBeHealthy(c) == containers[c].state = "running"

\* lines 107-117 / 291-301.
PHealth(d) ==
  /\ job[d].pc = "health"
  /\ \E healthy \in BOOLEAN :
       /\ healthy => CanBeHealthy(job[d].cid)
       /\ job' = [job EXCEPT ![d].pc = IF healthy THEN "rmold" ELSE "rmstaging_f"]
  /\ UNCHANGED <<svc, hcPath, repoMb, dep, waiting, containers, nextCid, cancel, reconcilerVars, resp, utilVars, lastEvent>>

\* lines 118-124 / 302-304: remove the staging container, return success = false.
PRemoveStagingUnhealthy(d) ==
  /\ job[d].pc = "rmstaging_f"
  /\ containers' = removeContainer(containers, job[d].cid)
  /\ Return(d, "hcfail")
  /\ UNCHANGED <<svc, hcPath, repoMb, dep, waiting, nextCid, cancel, reconcilerVars, resp, utilVars, lastEvent>>

\* lines 131-136 / 309-313: remove the old container; a throw is a warning.
PRemoveOld(d) ==
  /\ job[d].pc = "rmold"
  /\ containers' = removeContainer(containers, job[d].existing)
  /\ job' = [job EXCEPT ![d].pc = "rmstaging",
                        ![d].gap = job[d].gap \/ ~Routed(containers')]
  /\ UNCHANGED <<svc, hcPath, repoMb, dep, waiting, nextCid, cancel, reconcilerVars, resp, utilVars, lastEvent>>

\* line 140 / 315: remove the staging container, errors ignored.
PRemoveStaging(d) ==
  /\ job[d].pc = "rmstaging"
  /\ containers' = removeContainer(containers, job[d].cid)
  /\ job' = [job EXCEPT ![d].pc = "runcanon",
                        ![d].gap = job[d].gap \/ ~Routed(containers')]
  /\ UNCHANGED <<svc, hcPath, repoMb, dep, waiting, nextCid, cancel, reconcilerVars, resp, utilVars, lastEvent>>

\* lines 141-147 / 316-321: runContainer under the canonical name.
PRunCanonical(d) ==
  /\ job[d].pc = "runcanon"
  /\ IF CreateOk(containers, "canonical")
     THEN /\ containers' = runContainer(containers, "canonical", nextCid, job[d].tag)
          /\ nextCid' = nextCid + 1
          /\ job' = [job EXCEPT ![d].cid = nextCid, ![d].pc = "ret", ![d].res = "ok",
                                ![d].workdir = FALSE,
                                ![d].made = @ \cup {nextCid}]
     ELSE /\ Return(d, "error")
          /\ UNCHANGED <<containers, nextCid>>
  /\ UNCHANGED <<svc, hcPath, repoMb, dep, waiting, cancel, reconcilerVars, resp, utilVars, lastEvent>>

\* ---- traditional branch ---------------------------------------------------
\* lines 150-158 / 323-330: stopContainer on the old container.
PStopOld(d) ==
  /\ job[d].pc = "stopold"
  /\ containers' = stopContainer(containers, job[d].existing)
  /\ job' = [job EXCEPT ![d].pc = "run"]
  /\ UNCHANGED <<svc, hcPath, repoMb, dep, waiting, nextCid, cancel, reconcilerVars, resp, utilVars, lastEvent>>

\* lines 160-170 / 332-339: runContainer under the canonical name.
PRun(d) ==
  /\ job[d].pc = "run"
  /\ IF CreateOk(containers, "canonical")
     THEN /\ containers' = runContainer(containers, "canonical", nextCid, job[d].tag)
          /\ nextCid' = nextCid + 1
          /\ job' = [job EXCEPT ![d].cid = nextCid,
                                ![d].pc = IF hcPath THEN "thealth" ELSE "ret",
                                ![d].res = IF hcPath THEN "none" ELSE "ok",
                                ![d].workdir = IF hcPath THEN @ ELSE FALSE,
                                ![d].made = @ \cup {nextCid}]
     ELSE /\ Return(d, "error")
          /\ UNCHANGED <<containers, nextCid>>
  /\ UNCHANGED <<svc, hcPath, repoMb, dep, waiting, cancel, reconcilerVars, resp, utilVars, lastEvent>>

\* lines 172-182 / 341-350.
PHealthTraditional(d) ==
  /\ job[d].pc = "thealth"
  /\ \E healthy \in BOOLEAN :
       /\ healthy => CanBeHealthy(job[d].cid)
       /\ job' = [job EXCEPT ![d].pc = IF healthy THEN "ret" ELSE "rmnew",
                             ![d].res = IF healthy THEN "ok" ELSE "none",
                             ![d].workdir = IF healthy THEN FALSE ELSE @]
  /\ UNCHANGED <<svc, hcPath, repoMb, dep, waiting, containers, nextCid, cancel, reconcilerVars, resp, utilVars, lastEvent>>

\* lines 183-189 / 351-352.
PRemoveNew(d) ==
  /\ job[d].pc = "rmnew"
  /\ containers' = removeContainer(containers, job[d].cid)
  /\ Return(d, "hcfail")
  /\ UNCHANGED <<svc, hcPath, repoMb, dep, waiting, nextCid, cancel, reconcilerVars, resp, utilVars, lastEvent>>

\* ---- completion hook ------------------------------------------------------
\* handleJobCompleted lines 63-72 and 82-90: the Deployment row; on success
\* imageTag is written from the result when the result carries one.
\* on failure logs is result.logs, or a line made of result.error when
\* result.logs is empty.
HookDeployment(d) ==
  /\ job[d].pc = "ret"
  /\ dep' = [dep EXCEPT ![d].status = IF job[d].res = "ok" THEN "SUCCESS" ELSE "FAILED",
                        ![d].imageTag = IF job[d].res = "ok" /\ job[d].tag # Null
                                        THEN job[d].tag ELSE @,
                        ![d].logs = IF job[d].res = "ok" \/ job[d].logs # ""
                                    THEN job[d].logs ELSE "failed"]
  /\ job' = [job EXCEPT ![d].pc = "hooksvc"]
  /\ UNCHANGED <<svc, hcPath, repoMb, waiting, containers, nextCid, cancel, reconcilerVars, resp, utilVars, lastEvent>>

\* The hook's second half with its publishes left out.
HookServiceSilent(d) ==
  /\ job[d].pc = "hooksvc"
  /\ svc' = IF job[d].res = "ok"
            THEN Touch([svc EXCEPT !.status = "RUNNING", !.containerId = job[d].cid])
            ELSE Touch([svc EXCEPT !.status = "FAILED"])
  /\ job' = [job EXCEPT ![d].pc = "done"]
  /\ UNCHANGED <<hcPath, repoMb, dep, waiting, containers, nextCid, cancel, reconcilerVars, resp, utilVars, lastEvent>>

\* handleJobCompleted lines 73-78 and 92-101: the Service row, then the
\* terminal deployment:status event and the service:status event.
HookService(d) ==
  /\ job[d].pc = "hooksvc"
  /\ svc' = IF job[d].res = "ok"
            THEN Touch([svc EXCEPT !.status = "RUNNING", !.containerId = job[d].cid])
            ELSE Touch([svc EXCEPT !.status = "FAILED"])
  /\ job' = [job EXCEPT ![d].pc = "done", ![d].events = @ + 1]
  /\ UNCHANGED <<hcPath, repoMb, dep, waiting, containers, nextCid, cancel, reconcilerVars, resp, utilVars>>
  /\ lastEvent' = IF job[d].res = "ok" THEN "RUNNING" ELSE "FAILED"

\* ---- specification --------------------------------------------------------
Pipeline(d) ==
  \/ PInit(d) \/ PClone(d) \/ PBuild(d) \/ PReadService(d)
  \/ PRunStaging(d) \/ PHealth(d) \/ PRemoveStagingUnhealthy(d)
  \/ PRemoveOld(d) \/ PRemoveStaging(d) \/ PRunCanonical(d)
  \/ PStopOld(d) \/ PRun(d) \/ PHealthTraditional(d) \/ PRemoveNew(d)
  \/ HookDeployment(d) \/ HookService(d)

Next ==
  \/ Trigger
  \/ \E t \in DepIds : Rollback(t)
  \/ \E d \in NewDepIds : CancelRead(d) \/ CancelRemove(d) \/ CancelService(d)
  \/ \E q \in Queues : Lease(q)
  \/ \E d \in NewDepIds : Pipeline(d)

Spec == Init /\ [][Next]_vars

\* ---- reconciler ------------------------------------------------------------
\* runAllCleanupTasks runs the sweeps one after the other; cleanupOldDeployments
\* (keepCount 10) finds no service with more than 10 rows and writes nothing.
Idle == [pc |-> "idle", cid |-> Null, status |-> "none", pair |-> 0]

\* The sweep record at the next position of the run.
At(pos) == [Idle EXCEPT !.pc = pos, !.pair = sweep.pair]

\* The end of a run: the first run of a pair is followed by the second.
Finished == [Idle EXCEPT !.pair = IF sweep.pair = 1 THEN 2 ELSE 0]

\* cleanupOrphanedContainers lines 14-23: the services with a containerId.
DriftRead ==
  /\ sweep.pc = "idle"
  /\ sweep' = IF svc.containerId # Null
              THEN [At("driftcheck") EXCEPT !.cid = svc.containerId, !.status = svc.status]
              ELSE At("reap")
  /\ UNCHANGED <<svc, hcPath, repoMb, dep, waiting, job, containers, nextCid, cancel, hub, resp, utilVars, lastEvent>>

\* An inspect that only tests that the container exists.
isContainerPresent(cs, c) == cs[c].state # "absent"

\* isContainerRunning: inspect; a container that is gone counts as not running.
isContainerRunning(cs, c) == cs[c].state = "running"

\* lines 29-31: the status tested is the one read in line 14.
DriftCheck ==
  /\ sweep.pc = "driftcheck"
  /\ sweep' = IF ~isContainerRunning(containers, sweep.cid) /\ sweep.status = "RUNNING"
              THEN [sweep EXCEPT !.pc = "driftwrite"]
              ELSE At("reap")
  /\ UNCHANGED <<svc, hcPath, repoMb, dep, waiting, job, containers, nextCid, cancel, hub, resp, utilVars, lastEvent>>

\* lines 34-37.
DriftWrite ==
  /\ sweep.pc = "driftwrite"
  /\ svc' = Touch([svc EXCEPT !.status = "STOPPED", !.containerId = Null])
  /\ sweep' = At("reap")
  /\ UNCHANGED <<hcPath, repoMb, dep, waiting, job, containers, nextCid, cancel, hub, resp, utilVars, lastEvent>>

\* cleanupStoppedContainers: remove every managed container in state exited.
cleanupStoppedContainers(cs) ==
  [c \in Cids |-> IF cs[c].state = "exited" THEN Absent ELSE cs[c]]

ReapExited ==
  /\ sweep.pc = "reap"
  /\ containers' = cleanupStoppedContainers(containers)
  /\ sweep' = At("failedread")
  /\ UNCHANGED <<svc, hcPath, repoMb, dep, waiting, job, nextCid, cancel, hub, resp, utilVars, lastEvent>>

\* cleanupFailedDeployments lines 112-118: FAILED, containerId not null,
\* updatedAt older than 24 h.
FailedRead ==
  /\ sweep.pc = "failedread"
  /\ sweep' = IF svc.status = "FAILED" /\ svc.containerId # Null /\ svc.old
              THEN [At("failedremove") EXCEPT !.cid = svc.containerId, !.status = svc.status]
              ELSE Finished
  /\ UNCHANGED <<svc, hcPath, repoMb, dep, waiting, job, containers, nextCid, cancel, hub, resp, utilVars, lastEvent>>

\* line 124: removeContainer; its 404 is caught in line 130 and the row is
\* left as it is.
FailedRemove ==
  /\ sweep.pc = "failedremove"
  /\ containers' = removeContainer(containers, sweep.cid)
  /\ sweep' = IF containers[sweep.cid].state = "absent"
              THEN Finished
              ELSE [sweep EXCEPT !.pc = "failedwrite"]
  /\ UNCHANGED <<svc, hcPath, repoMb, dep, waiting, job, nextCid, cancel, hub, resp, utilVars, lastEvent>>

\* lines 125-128: only containerId is written.
FailedWrite ==
  /\ sweep.pc = "failedwrite"
  /\ svc' = Touch([svc EXCEPT !.containerId = Null])
  /\ sweep' = Finished
  /\ UNCHANGED <<hcPath, repoMb, dep, waiting, job, containers, nextCid, cancel, hub, resp, utilVars, lastEvent>>

Reconciler ==
  \/ DriftRead \/ DriftCheck \/ DriftWrite \/ ReapExited
  \/ FailedRead \/ FailedRemove \/ FailedWrite

\* ---- metrics hub ------------------------------------------------------------
\* emitMetricsForSubscribers lines 40-47: only a RUNNING service with a
\* containerId is sampled.
HubRead ==
  /\ hub.pc = "idle"
  /\ svc.containerId # Null
  /\ svc.status = "RUNNING"
  /\ hub' = [pc |-> "stats", cid |-> svc.containerId]
  /\ UNCHANGED <<svc, hcPath, repoMb, dep, waiting, job, containers, nextCid, cancel, sweep, resp, utilVars, lastEvent>>

\* lines 49-50 and 86-87: container.stats answers 404 when the container is gone.
HubStats ==
  /\ hub.pc = "stats"
  /\ hub' = IF containers[hub.cid].state = "absent"
            THEN [hub EXCEPT !.pc = "write"]
            ELSE [pc |-> "idle", cid |-> Null]
  /\ UNCHANGED <<svc, hcPath, repoMb, dep, waiting, job, containers, nextCid, cancel, sweep, resp, utilVars, lastEvent>>

\* lines 88-98.
HubWrite ==
  /\ hub.pc = "write"
  /\ svc' = Touch([svc EXCEPT !.containerId = Null, !.status = "STOPPED"])
  /\ hub' = [pc |-> "idle", cid |-> Null]
  /\ UNCHANGED <<hcPath, repoMb, dep, waiting, job, containers, nextCid, cancel, sweep, resp, utilVars>>
  /\ lastEvent' = "STOPPED"

Hub == HubRead \/ HubStats \/ HubWrite

\* 24 hours pass without a write to the Service row (updatedAt grows old).
AdvanceClock ==
  /\ ~svc.old
  /\ svc' = [svc EXCEPT !.old = TRUE]
  /\ UNCHANGED <<hcPath, repoMb, dep, waiting, job, containers, nextCid, cancel, sweep, hub, resp, utilVars, lastEvent>>

NextReconcile ==
  \/ Trigger
  \/ \E d \in NewDepIds : CancelRead(d) \/ CancelRemove(d) \/ CancelService(d)
  \/ \E q \in Queues : Lease(q)
  \/ \E d \in NewDepIds : Pipeline(d)
  \/ Reconciler
  \/ Hub
  \/ AdvanceClock

SpecReconcile == Init /\ [][NextReconcile]_vars

\* ---- the reconciler running alone ---------------------------------------------
\* The process of the Service's recorded container ends and the runtime
\* reports the container as exited (inspect: State.Running = false).
ContainerExits(c) ==
  /\ c = svc.containerId
  /\ containers[c].state = "running"
  /\ containers' = [containers EXCEPT ![c].state = "exited"]
  /\ UNCHANGED <<svc, hcPath, repoMb, dep, waiting, job, nextCid, cancel, sweep, hub, resp, utilVars, lastEvent>>

\* The scheduler is about to run runAllCleanupTasks twice in a row.
RunTwice ==
  /\ sweep = Idle
  /\ sweep' = [Idle EXCEPT !.pair = 1]
  /\ UNCHANGED <<svc, hcPath, repoMb, dep, waiting, job, containers, nextCid, cancel, hub, resp, utilVars,
                 lastEvent>>

\* Requests, workers and the runtime move only between two runs of
\* runAllCleanupTasks; a run, once started, goes through without interleaving,
\* and so does a pair of runs.
NextQuiet ==
  \/ /\ sweep = Idle
     /\ \/ Trigger
        \/ \E q \in Queues : Lease(q)
        \/ \E d \in NewDepIds : Pipeline(d)
        \/ \E c \in Cids : ContainerExits(c)
        \/ AdvanceClock
  \/ Reconciler

SpecQuiet == Init /\ [][NextQuiet]_vars

\* The same, with every run of runAllCleanupTasks followed at once by a
\* second run.
NextTwice ==
  \/ /\ sweep = Idle
     /\ \/ Trigger
        \/ \E q \in Queues : Lease(q)
        \/ \E d \in NewDepIds : Pipeline(d)
        \/ \E c \in Cids : ContainerExits(c)
        \/ AdvanceClock
        \/ RunTwice
  \/ /\ sweep.pair # 0
     /\ Reconciler

SpecTwice == Init /\ [][NextTwice]_vars

\* ---- the pipelines alone ---------------------------------------------------
\* Trigger, rollback and the worker slots of both queues, no cancel request.
NextPipeline ==
  \/ Trigger
  \/ \E t \in DepIds : Rollback(t)
  \/ \E q \in Queues : Lease(q)
  \/ \E d \in NewDepIds : Pipeline(d)

SpecPipeline == Init /\ [][NextPipeline]_vars

\* ---- the rollback route with its rejections -----------------------------------
NextRequests ==
  \/ Trigger
  \/ \E t \in DepIds : Rollback(t)
  \/ \E t \in DepIds : RollbackRejected(t)
  \/ \E q \in Queues : Lease(q)
  \/ \E d \in NewDepIds : Pipeline(d)

SpecRequests == Init /\ [][NextRequests]_vars

\* ---- runtime faults ---------------------------------------------------------
\* A remove call the daemon rejects: removeContainer throws after its stop
\* either took effect or not, and the caller ignores the throw.
RemoveThrows(cs, c, stopped) == IF stopped THEN stopContainer(cs, c) ELSE cs

\* line 140 / 315 with a failing remove.
PRemoveStagingThrows(d) ==
  /\ job[d].pc = "rmstaging"
  /\ containers[job[d].cid].state # "absent"
  /\ \E stopped \in BOOLEAN :
       containers' = RemoveThrows(containers, job[d].cid, stopped)
  /\ job' = [job EXCEPT ![d].pc = "runcanon",
                        ![d].gap = job[d].gap \/ ~Routed(containers')]
  /\ UNCHANGED <<svc, hcPath, repoMb, dep, waiting, nextCid, cancel, reconcilerVars, resp, utilVars, lastEvent>>

\* lines 131-136 / 309-313 with a failing remove: the warning branch.
PRemoveOldThrows(d) ==
  /\ job[d].pc = "rmold"
  /\ containers[job[d].existing].state # "absent"
  /\ \E stopped \in BOOLEAN :
       containers' = RemoveThrows(containers, job[d].existing, stopped)
  /\ job' = [job EXCEPT ![d].pc = "rmstaging",
                        ![d].gap = job[d].gap \/ ~Routed(containers')]
  /\ UNCHANGED <<svc, hcPath, repoMb, dep, waiting, nextCid, cancel, reconcilerVars, resp, utilVars, lastEvent>>

\* line 119 / 303 with a failing remove.
PRemoveStagingUnhealthyThrows(d) ==
  /\ job[d].pc = "rmstaging_f"
  /\ containers[job[d].cid].state # "absent"
  /\ \E stopped \in BOOLEAN :
       containers' = RemoveThrows(containers, job[d].cid, stopped)
  /\ Return(d, "hcfail")
  /\ UNCHANGED <<svc, hcPath, repoMb, dep, waiting, nextCid, cancel, reconcilerVars, resp, utilVars, lastEvent>>

\* line 184 / 351 with a failing remove.
PRemoveNewThrows(d) ==
  /\ job[d].pc = "rmnew"
  /\ containers[job[d].cid].state # "absent"
  /\ \E stopped \in BOOLEAN :
       containers' = RemoveThrows(containers, job[d].cid, stopped)
  /\ Return(d, "hcfail")
  /\ UNCHANGED <<svc, hcPath, repoMb, dep, waiting, nextCid, cancel, reconcilerVars, resp, utilVars, lastEvent>>

Faults(d) ==
  \/ PRemoveStagingThrows(d) \/ PRemoveOldThrows(d)
  \/ PRemoveStagingUnhealthyThrows(d) \/ PRemoveNewThrows(d)

NextFaults ==
  \/ Trigger
  \/ \E t \in DepIds : Rollback(t)
  \/ \E q \in Queues : Lease(q)
  \/ \E d \in NewDepIds : Pipeline(d)
  \/ \E d \in NewDepIds : Faults(d)

SpecFaults == Init /\ [][NextFaults]_vars

\* runContainer with a start the daemon rejects (container.ts line 94, e.g. a
\* host port in use or an image whose entrypoint cannot be executed):
\* createContainer at lines 76-92 has made the container, start() throws,
\* runContainer has no handler and the pipeline's catch block at
\* deployment.ts lines 206-221 / 367-371 returns the failure.
PRunStartThrows(d) ==
  /\ job[d].pc \in RunSteps
  /\ CreateOk(containers, NameOfStep(job[d].pc))
  /\ containers' = [ReplaceNamed(containers, NameOfStep(job[d].pc))
                      EXCEPT ![nextCid] = [name |-> NameOfStep(job[d].pc),
                                           state |-> "created",
                                           image |-> job[d].tag]]
  /\ nextCid' = nextCid + 1
  /\ job' = [job EXCEPT ![d].pc = "ret", ![d].res = "error",
                        ![d].logs = appendLog(@),
                        ![d].timer = clearTimeout(@),
                        ![d].workdir = FALSE,
                        ![d].made = @ \cup {nextCid}]
  /\ UNCHANGED <<svc, hcPath, repoMb, dep, waiting, cancel, reconcilerVars, resp, utilVars, lastEvent>>

NextStart ==
  \/ Trigger
  \/ \E t \in DepIds : Rollback(t)
  \/ \E q \in Queues : Lease(q)
  \/ \E d \in NewDepIds : Pipeline(d)
  \/ \E d \in NewDepIds : PRunStartThrows(d)

SpecStart == Init /\ [][NextStart]_vars

\* ---- crashes and failed requests ----------------------------------------------
\* deploymentRouter.post('/') lines 135-151 when buildDeploymentJobData or
\* buildQueue.add throws: the row and the Service update are already written,
\* no job is enqueued, and the error goes to next(error).
TriggerFailsBeforeEnqueue ==
  /\ FreeIds # {}
  /\ dep' = [dep EXCEPT ![NewId] = [NoRow EXCEPT !.status = "QUEUED"]]
  /\ svc' = Touch([svc EXCEPT !.status = "DEPLOYING"])
  /\ UNCHANGED <<hcPath, repoMb, waiting, job, containers, nextCid, cancel, reconcilerVars, resp, utilVars, lastEvent>>

InProcessor(d) ==
  job[d].pc \notin {"none", "waiting", "ret", "hooksvc", "done", "cancelled",
                    "failed", "failedsvc"}

\* The worker dies while it holds the lease: the queue hands the job out
\* again until its attempts are used up, then fails it.
WorkerCrash(d) ==
  /\ InProcessor(d)
  /\ IF job[d].attempts < Attempts
     THEN /\ job' = [job EXCEPT ![d] = [NoJob EXCEPT !.pc = "waiting", !.q = job[d].q,
                                                     !.attempts = job[d].attempts,
                                                     !.workdir = job[d].workdir,
                                                     !.tag = IF job[d].q = "rollback"
                                                             THEN job[d].tag ELSE Null]]
          /\ waiting' = [waiting EXCEPT ![job[d].q] = Append(@, d)]
     ELSE /\ job' = [job EXCEPT ![d].pc = "failed"]
          /\ UNCHANGED waiting
  /\ UNCHANGED <<svc, hcPath, repoMb, dep, containers, nextCid, cancel, reconcilerVars, resp, utilVars, lastEvent>>

\* handleJobFailed lines 110-117: the Deployment row.
FailedDeployment(d) ==
  /\ job[d].pc = "failed"
  /\ dep' = [dep EXCEPT ![d].status = "FAILED", ![d].logs = "failed"]
  /\ job' = [job EXCEPT ![d].pc = "failedsvc"]
  /\ UNCHANGED <<svc, hcPath, repoMb, waiting, containers, nextCid, cancel, reconcilerVars, resp, utilVars, lastEvent>>

\* handleJobFailed lines 118-121: the Service row.
FailedService(d) ==
  /\ job[d].pc = "failedsvc"
  /\ svc' = Touch([svc EXCEPT !.status = "FAILED"])
  /\ job' = [job EXCEPT ![d].pc = "done", ![d].events = @ + 1]
  /\ UNCHANGED <<hcPath, repoMb, dep, waiting, containers, nextCid, cancel, reconcilerVars, resp, utilVars>>
  /\ lastEvent' = "FAILED"

Worker(d) == Pipeline(d) \/ FailedDeployment(d) \/ FailedService(d)

NextLive ==
  \/ Trigger
  \/ TriggerFailsBeforeEnqueue
  \/ \E q \in Queues : Lease(q)
  \/ \E d \in NewDepIds : Worker(d)
  \/ \E d \in NewDepIds : WorkerCrash(d)

\* The workers keep running: a lease that stays possible is taken, a leased
\* job's next step is taken.
Fairness ==
  /\ \A q \in Queues : WF_vars(Lease(q))
  /\ \A d \in NewDepIds : WF_vars(Worker(d))

SpecLive == Init /\ [][NextLive]_vars /\ Fairness

\* ---- a worker dying over a started container ------------------------------------
\* The worker process dies after runContainer returned and before the
\* pipeline returns; runAllCleanupTasks runs with nothing interleaved.
NextOrphan ==
  \/ /\ sweep = Idle
     /\ \/ Trigger
        \/ \E q \in Queues : Lease(q)
        \/ \E d \in NewDepIds : Worker(d)
        \/ \E d \in NewDepIds : job[d].made # {} /\ WorkerCrash(d)
        \/ AdvanceClock
  \/ Reconciler

SpecOrphan == Init /\ [][NextOrphan]_vars

\* ---- every writer of a terminal status -------------------------------------------
\* Both hooks and the cancel handler: the requests, the workers and the
\* crashes that end in handleJobFailed, a worker dying as soon as it holds
\* the lease.
NextLogs ==
  \/ Trigger
  \/ \E t \in DepIds : Rollback(t)
  \/ \E d \in NewDepIds : CancelRead(d) \/ CancelRemove(d) \/ CancelService(d)
  \/ \E q \in Queues : Lease(q)
  \/ \E d \in NewDepIds : Worker(d)
  \/ \E d \in NewDepIds : job[d].pc = "leased" /\ WorkerCrash(d)

SpecLogs == Init /\ [][NextLogs]_vars

\* ---- secret envelope -----------------------------------------------------------
\* utils/encryption.ts.  Strings are sequences of one-character strings,
\* buffers are sequences of bytes.
PlainChars == {"a", ":"}
Plaintexts == UNION {[1..n -> PlainChars] : n \in 0..MaxPlain}
HexChars == <<"0", "1", "2", "3", "4", "5", "6", "7",
              "8", "9", "a", "b", "c", "d", "e", "f">>
IvSeeds == {0, 1}

\* ENCRYPTION_KEY, as far as the cipher below uses it.
getEncryptionKey == 5

\* cipher.update(plaintext, 'utf8', ...): the UTF-8 bytes of the string.
utf8Byte(ch) == IF ch = "a" THEN 97 ELSE 58

utf8Encode(str) == [i \in 1..Len(str) |-> utf8Byte(str[i])]

\* decipher.update(..., 'utf8'): bytes back to characters; a byte that is
\* neither of the two characters decodes to a third one.
utf8Char(b) == IF b = 97 THEN "a" ELSE IF b = 58 THEN ":" ELSE "?"

utf8Decode(buf) == [i \in 1..Len(buf) |-> utf8Char(buf[i])]

isHex(ch) == \E n \in 1..16 : HexChars[n] = ch

hexValue(ch) == (CHOOSE n \in 1..16 : HexChars[n] = ch) - 1

\* buf.toString('hex'): two lower-case digits per byte.
RECURSIVE toHex(_)
toHex(buf) ==
  IF buf = <<>>
  THEN <<>>
  ELSE <<HexChars[(Head(buf) \div 16) + 1], HexChars[(Head(buf) % 16) + 1]>>
         \o toHex(Tail(buf))

\* Buffer.from(str, 'hex'): decodes pair by pair and stops at the first pair
\* that is not two hex digits; a trailing single digit is dropped.
RECURSIVE fromHex(_)
fromHex(str) ==
  IF Len(str) < 2 \/ ~isHex(str[1]) \/ ~isHex(str[2])
  THEN <<>>
  ELSE <<16 * hexValue(str[1]) + hexValue(str[2])>>
         \o fromHex(SubSeq(str, 3, Len(str)))

\* str.split(':')
RECURSIVE split(_)
split(str) ==
  IF \A i \in 1..Len(str) : str[i] # ":"
  THEN <<str>>
  ELSE LET i == CHOOSE k \in 1..Len(str) :
                  str[k] = ":" /\ \A j \in 1..(k - 1) : str[j] # ":"
       IN <<SubSeq(str, 1, i - 1)>> \o split(SubSeq(str, i + 1, Len(str)))

\* `${a}:${b}:${c}`
join3(a, b, c) == a \o <<":">> \o b \o <<":">> \o c

\* AES-256-GCM, reduced to what encrypt and decrypt rely on: a keystream
\* that depends on key, IV and position, and a tag over IV and ciphertext
\* in which no two inputs within the bounds agree on their first four bytes.
keystream(iv, i) ==
  (getEncryptionKey + (IF iv = <<>> THEN 0 ELSE iv[1]) + 7 * i) % 256

gcmEncrypt(iv, buf) == [i \in 1..Len(buf) |-> (buf[i] + keystream(iv, i)) % 256]

gcmDecrypt(iv, buf) ==
  [i \in 1..Len(buf) |-> (buf[i] + 256 - keystream(iv, i)) % 256]

RECURSIVE bufCode(_)
bufCode(buf) ==
  IF buf = <<>> THEN 0 ELSE bufCode(SubSeq(buf, 1, Len(buf) - 1)) * 257 + buf[Len(buf)] + 1

gcmTag(iv, buf) ==
  LET n == 2 * bufCode(buf) + (((IF iv = <<>> THEN 0 ELSE iv[1]) + getEncryptionKey) % 2)
  IN [i \in 1..AUTH_TAG_LENGTH |-> (n \div (256 ^ ((i - 1) % 4))) % 256]

\* decipher.setAuthTag without an authTagLength option: the tag lengths GCM
\* accepts, in bytes.
ValidTagLengths == {4, 8, 12, 13, 14, 15, 16}

\* encrypt, lines 19-31; r stands for crypto.randomBytes.
encrypt(plaintext, r) ==
  LET iv == [i \in 1..IV_LENGTH |-> r]
      encrypted == gcmEncrypt(iv, utf8Encode(plaintext))
      authTag == gcmTag(iv, encrypted)
  IN join3(toHex(iv), toHex(authTag), toHex(encrypted))

\* decrypt, lines 36-55.  setAuthTag throws on a tag of another length,
\* update throws on a hex string of odd length, final throws when the tag
\* it was given differs from the tag of what it read, compared over the
\* length of the tag it was given.
decrypt(encryptedValue) ==
  LET parts == split(encryptedValue)
  IN IF Len(parts) # 3
     THEN Thrown
     ELSE LET iv == fromHex(parts[1])
              authTag == fromHex(parts[2])
              encrypted == parts[3]
          IN IF Len(authTag) \notin ValidTagLengths \/ Len(encrypted) % 2 = 1
             THEN Thrown
             ELSE IF SubSeq(gcmTag(iv, fromHex(encrypted)), 1, Len(authTag)) # authTag
                  THEN Thrown
                  ELSE [ok |-> TRUE,
                        text |-> utf8Decode(gcmDecrypt(iv, fromHex(encrypted)))]

\* A caller encrypts a secret for the store.
Encrypt ==
  /\ envelope.pc = "new"
  /\ \E r \in IvSeeds :
       envelope' = [envelope EXCEPT !.pc = "stored",
                                    !.value = encrypt(envelope.plain, r)]
  /\ UNCHANGED <<svc, hcPath, repoMb, dep, waiting, job, containers, nextCid, cancel,
                 reconcilerVars, resp, lastEvent, taken, signup, webhook, auxVars>>

AlterChars == {"0", "f", "z"}

setChar(str, i, ch) == [str EXCEPT ![i] = ch]

\* The stored value changes in one character of its ciphertext.
AlterCiphertext ==
  /\ envelope.pc = "stored"
  /\ LET parts == split(envelope.value)
     IN \E i \in 1..Len(parts[3]), ch \in AlterChars :
          /\ parts[3][i] # ch
          /\ envelope' = [envelope EXCEPT
               !.pc = "altered", !.altered = "ciphertext",
               !.value = join3(parts[1], parts[2], setChar(parts[3], i, ch))]
  /\ UNCHANGED <<svc, hcPath, repoMb, dep, waiting, job, containers, nextCid, cancel,
                 reconcilerVars, resp, lastEvent, taken, signup, webhook, auxVars>>

\* The stored value changes in one character of its authentication tag.
AlterTag ==
  /\ envelope.pc = "stored"
  /\ LET parts == split(envelope.value)
     IN \E i \in 1..Len(parts[2]), ch \in AlterChars :
          /\ parts[2][i] # ch
          /\ envelope' = [envelope EXCEPT
               !.pc = "altered", !.altered = "tag",
               !.value = join3(parts[1], setChar(parts[2], i, ch), parts[3])]
  /\ UNCHANGED <<svc, hcPath, repoMb, dep, waiting, job, containers, nextCid, cancel,
                 reconcilerVars, resp, lastEvent, taken, signup, webhook, auxVars>>

\* The stored value loses the end of its authentication tag.
TruncateTag ==
  /\ envelope.pc = "stored"
  /\ LET parts == split(envelope.value)
     IN \E n \in 0..(AUTH_TAG_LENGTH - 1) :
          envelope' = [envelope EXCEPT
            !.pc = "altered", !.altered = "tag",
            !.value = join3(parts[1], SubSeq(parts[2], 1, 2 * n), parts[3])]
  /\ UNCHANGED <<svc, hcPath, repoMb, dep, waiting, job, containers, nextCid, cancel,
                 reconcilerVars, resp, lastEvent, taken, signup, webhook, auxVars>>

\* The stored value loses or gains a component.
AlterComponents ==
  /\ envelope.pc = "stored"
  /\ LET parts == split(envelope.value)
     IN \E v \in {parts[1] \o <<":">> \o parts[2],
                  envelope.value \o <<":">> \o parts[3],
                  parts[2]} :
          envelope' = [envelope EXCEPT
            !.pc = "altered", !.altered = "components", !.value = v]
  /\ UNCHANGED <<svc, hcPath, repoMb, dep, waiting, job, containers, nextCid, cancel,
                 reconcilerVars, resp, lastEvent, taken, signup, webhook, auxVars>>

\* A caller decrypts what the store holds.
Decrypt ==
  /\ envelope.pc \in {"stored", "altered"}
  /\ envelope' = [envelope EXCEPT !.pc = "done", !.out = decrypt(envelope.value)]
  /\ UNCHANGED <<svc, hcPath, repoMb, dep, waiting, job, containers, nextCid, cancel,
                 reconcilerVars, resp, lastEvent, taken, signup, webhook, auxVars>>

InitEnvelope ==
  /\ hcPath = FALSE
  /\ repoMb = 100
  /\ InitFresh
  /\ InitRest
  /\ envelope \in {[NoEnvelope EXCEPT !.pc = "new", !.plain = p] : p \in Plaintexts}
  /\ taken = [s \in Suffixes |-> 0]
  /\ signup = [p \in Creators |-> NoSignup]
  /\ webhook = NoWebhook
  /\ InitAux

NextEnvelope ==
  \/ Encrypt
  \/ AlterCiphertext
  \/ AlterTag
  \/ TruncateTag
  \/ AlterComponents
  \/ Decrypt

SpecEnvelope == InitEnvelope /\ [][NextEnvelope]_vars

\* ---- subdomains ----------------------------------------------------------------
\* utils/subdomain.ts and serviceRouter.post('/').  All requests carry the
\* same service name, so a subdomain is its random suffix.

\* A store that accepts any subdomain.
noUniqueConstraint(t, s) == FALSE

\* The store's unique constraint on Service.subdomain: an insert of a
\* subdomain that a row holds is refused.
uniqueViolation(t, s) == t[s] > 0

\* prisma.service.findUnique({ where: { subdomain } })
findUnique(t, s) == t[s] > 0

\* generateSubdomain lines 7-15: the first draw, on its way to the first
\* lookup.
StartCreate(p) ==
  /\ signup[p].pc = "idle"
  /\ \E s \in Suffixes :
       signup' = [signup EXCEPT ![p] = [pc |-> "lookup", subdomain |-> s, attempts |-> 0]]
  /\ UNCHANGED <<svc, hcPath, repoMb, dep, waiting, job, containers, nextCid, cancel,
                 reconcilerVars, resp, lastEvent, envelope, taken, webhook, auxVars>>

\* One findUnique and what follows it up to the next await: lines 17-35.
\* A free subdomain is returned; a held one is redrawn while attempts < 10;
\* after that the function throws.
Lookup(p) ==
  /\ signup[p].pc = "lookup"
  /\ IF ~findUnique(taken, signup[p].subdomain)
     THEN signup' = [signup EXCEPT ![p].pc = "create"]
     ELSE IF signup[p].attempts < RedrawLimit
          THEN \E s \in Suffixes :
                 signup' = [signup EXCEPT ![p].subdomain = s, ![p].attempts = @ + 1]
          ELSE signup' = [signup EXCEPT ![p].pc = "nosubdomain"]
  /\ UNCHANGED <<svc, hcPath, repoMb, dep, waiting, job, containers, nextCid, cancel,
                 reconcilerVars, resp, lastEvent, envelope, taken, webhook, auxVars>>

\* prisma.service.create, services.ts lines 358-373; a refused insert goes
\* to next(error).
Create(p) ==
  /\ signup[p].pc = "create"
  /\ IF uniqueViolation(taken, signup[p].subdomain)
     THEN /\ signup' = [signup EXCEPT ![p].pc = "conflict"]
          /\ UNCHANGED taken
     ELSE /\ signup' = [signup EXCEPT ![p].pc = "created"]
          /\ taken' = [taken EXCEPT ![signup[p].subdomain] = @ + 1]
  /\ UNCHANGED <<svc, hcPath, repoMb, dep, waiting, job, containers, nextCid, cancel,
                 reconcilerVars, resp, lastEvent, envelope, webhook, auxVars>>

\* The services that exist when the requests arrive hold any subset of the
\* subdomains.
InitSignup ==
  /\ hcPath = FALSE
  /\ repoMb = 100
  /\ InitFresh
  /\ InitRest
  /\ envelope = NoEnvelope
  /\ taken \in [Suffixes -> {0, 1}]
  /\ signup = [p \in Creators |-> NoSignup]
  /\ webhook = NoWebhook
  /\ InitAux

NextSignup ==
  \/ \E p \in Creators : StartCreate(p)
  \/ \E p \in Creators : Lookup(p)
  \/ \E p \in Creators : Create(p)

SpecSignup == InitSignup /\ [][NextSignup]_vars

\* ---- repositories of any size ----------------------------------------------------
\* The pipelines over a repository that may be larger than MAX_REPO_SIZE_MB.
\* getRepoSize (clone.ts lines 47-56) has no caller: no step reads repoMb.
InitRepo ==
  /\ hcPath \in BOOLEAN
  /\ repoMb \in RepoSizes
  /\ (InitFresh \/ InitRunning)
  /\ InitRest
  /\ InitUtil

SpecRepo == InitRepo /\ [][NextPipeline]_vars

\* ---- webhook -------------------------------------------------------------------
\* routes/webhooks.ts.  A ref is the sequence of its path segments; the raw
\* body is identified by its ref.
WebhookSecret == 1
OtherSecret == 2
ServiceBranch == <<"main">>
Refs == {<<"refs", "heads", "main">>, <<"refs", "heads", "dev">>, <<"refs", "tags", "main">>}
Events == {"push", "ping"}

\* 'sha256=' + createHmac('sha256', secret).update(payload).digest('hex')
hmacSha256(secret, payload) == <<"sha256", secret, payload>>

Signatures ==
  {NoSignature} \cup {hmacSha256(WebhookSecret, r) : r \in Refs}
                \cup {hmacSha256(OtherSecret, r) : r \in Refs}

\* A verification that accepts every signature that is present.
verifyAnySignature(payload, signature, secret) == signature # NoSignature

\* verifyGitHubSignature lines 12-30: a missing header fails; timingSafeEqual
\* throws on another length and answers false on another content.
verifyGitHubSignature(payload, signature, secret) ==
  /\ signature # NoSignature
  /\ signature = hmacSha256(secret, payload)

\* ref.replace('refs/heads/', ''): the first refs/heads/ is cut out.
branchOfRef(ref) ==
  IF \E i \in 1..(Len(ref) - 2) : ref[i] = "refs" /\ ref[i + 1] = "heads"
  THEN LET i == CHOOSE k \in 1..(Len(ref) - 2) :
                  /\ ref[k] = "refs" /\ ref[k + 1] = "heads"
                  /\ \A j \in 1..(k - 1) : ~(ref[j] = "refs" /\ ref[j + 1] = "heads")
       IN SubSeq(ref, 1, i - 1) \o SubSeq(ref, i + 2, Len(ref))
  ELSE ref

\* lines 60-74: the answer to a request.
webhookCode(signature, event, ref) ==
  IF ~verifyGitHubSignature(ref, signature, WebhookSecret) THEN 401
  ELSE IF event # "push" THEN 204
  ELSE IF branchOfRef(ref) # ServiceBranch THEN 204
  ELSE 200

\* webhookRouter.post('/github/:serviceId') lines 51-130 for a service that
\* has a webhook secret: a rejected request is answered at once, an accepted
\* push creates the row QUEUED with the pushed commit, sets the service
\* DEPLOYING and enqueues on the build queue with jobId = row id.
Webhook(signature, event, ref) ==
  /\ webhook' = [signature |-> signature, event |-> event, ref |-> ref,
                 code |-> webhookCode(signature, event, ref)]
  /\ IF webhookCode(signature, event, ref) = 200
     THEN /\ FreeIds # {}
          /\ dep' = [dep EXCEPT ![NewId] = [NoRow EXCEPT !.status = "QUEUED",
                                                         !.commitSha = HeadCommit]]
          /\ svc' = Touch([svc EXCEPT !.status = "DEPLOYING"])
          /\ waiting' = enqueue(waiting, "build", NewId)
          /\ job' = [job EXCEPT ![NewId] = [NoJob EXCEPT !.pc = "waiting", !.q = "build"]]
          /\ lastEvent' = "DEPLOYING"
     ELSE UNCHANGED <<dep, svc, waiting, job, lastEvent>>
  /\ UNCHANGED <<hcPath, repoMb, containers, nextCid, cancel, reconcilerVars, resp,
                 envelope, taken, signup, auxVars>>

NextWebhook ==
  \/ \E signature \in Signatures, event \in Events, ref \in Refs :
       Webhook(signature, event, ref)
  \/ \E q \in Queues : Lease(q)

SpecWebhook == Init /\ [][NextWebhook]_vars

\* ---- clones that outlast their timer ------------------------------------------------
\* clone.ts lines 23-26: CLONE_TIMEOUT_MS after the start of the clone the
\* timer calls controller.abort().  The controller's signal is handed to
\* nobody, so git.clone goes on and the job stays where it is.
CloneTimeout(d) ==
  /\ job[d].pc = "clone"
  /\ job[d].timer = "armed"
  /\ job' = [job EXCEPT ![d].timer = "fired"]
  /\ UNCHANGED <<svc, hcPath, repoMb, dep, waiting, containers, nextCid, cancel,
                 reconcilerVars, resp, utilVars, lastEvent>>

NextClone ==
  \/ Trigger
  \/ \E q \in Queues : Lease(q)
  \/ \E d \in NewDepIds : Pipeline(d)
  \/ \E d \in NewDepIds : CloneTimeout(d)

SpecClone == Init /\ [][NextClone]_vars

\* ---- deployment retention -----------------------------------------------------
\* deploymentRouter.post('/') lines 135-151 for one of the services: the row
\* QUEUED, the Service DEPLOYING, the job on the build queue.
CreateDeployment(s) ==
  /\ retention.count < MaxRows
  /\ retention' = [retention EXCEPT !.count = @ + 1,
                                    !.rows[retention.count + 1] = "QUEUED",
                                    !.owner[retention.count + 1] = s,
                                    !.jobs[retention.count + 1] = "waiting",
                                    !.status[s] = "DEPLOYING"]
  /\ UNCHANGED <<coreVars, realtime, metrics, probe, routing>>

\* The build worker takes the oldest waiting job when one of its slots is
\* free; processDeployment lines 26-29 write BUILDING, which throws when the
\* row is gone.
StartJob(r) ==
  /\ retention.jobs[r] = "waiting"
  /\ \A q \in RowIds : retention.jobs[q] = "waiting" => r <= q
  /\ Cardinality({q \in RowIds : retention.jobs[q] = "active"}) < Concurrency
  /\ retention' = [retention EXCEPT !.jobs[r] = "active",
                                    !.rows[r] = IF @ = "QUEUED" THEN "BUILDING" ELSE @]
  /\ UNCHANGED <<coreVars, realtime, metrics, probe, routing>>

\* handleJobCompleted lines 82-98 for a successful result:
\* prisma.deployment.update rejects when no row has the id, and the Service
\* update after it is not reached.
FinishJob(r) ==
  /\ retention.jobs[r] = "active"
  /\ IF retention.rows[r] = "DELETED"
     THEN retention' = [retention EXCEPT !.jobs[r] = "hookthrew"]
     ELSE retention' = [retention EXCEPT !.jobs[r] = "done",
                                         !.rows[r] = "SUCCESS",
                                         !.status[retention.owner[r]] = "RUNNING"]
  /\ UNCHANGED <<coreVars, realtime, metrics, probe, routing>>

MaxOf(S) == CHOOSE x \in S : \A y \in S : y <= x

\* orderBy: { createdAt: 'desc' }.
RECURSIVE orderByCreatedAtDesc(_)
orderByCreatedAtDesc(S) ==
  IF S = {} THEN <<>> ELSE <<MaxOf(S)>> \o orderByCreatedAtDesc(S \ {MaxOf(S)})

\* cleanupOldDeployments lines 74-78: the rows of the service, newest first.
findManyDeployments(rt, s) ==
  orderByCreatedAtDesc({r \in RowIds : rt.owner[r] = s /\ rt.rows[r] \notin {"NONE", "DELETED"}})

\* A slice that drops the tail instead of the head.
sliceFromEnd(seq, start) == SubSeq(seq, 1, Len(seq) - start)

\* Array.prototype.slice(start).
slice(seq, start) == SubSeq(seq, start + 1, Len(seq))

Range(seq) == {seq[i] : i \in 1..Len(seq)}

\* The loop over the services, lines 72-94: the next one, or the end.
NextService(rt) ==
  IF rt.cursor < Cardinality(ServiceIds)
  THEN [rt EXCEPT !.pc = "read", !.cursor = @ + 1, !.toDelete = {}]
  ELSE [rt EXCEPT !.pc = "idle", !.cursor = 0, !.toDelete = {}]

\* lines 67-70: the services; the loop starts at the first.
PruneStart ==
  /\ retention.pc = "idle"
  /\ retention' = [retention EXCEPT !.pc = "read", !.cursor = 1]
  /\ UNCHANGED <<coreVars, realtime, metrics, probe, routing>>

\* lines 74-82: findMany, and slice(keepCount) when there are more than
\* keepCount rows.
PruneRead ==
  /\ retention.pc = "read"
  /\ retention' =
       IF Len(findManyDeployments(retention, retention.cursor)) > KeepCount
       THEN [retention EXCEPT
               !.pc = "delete",
               !.toDelete = Range(slice(findManyDeployments(retention, retention.cursor),
                                        KeepCount))]
       ELSE NextService(retention)
  /\ UNCHANGED <<coreVars, realtime, metrics, probe, routing>>

\* lines 84-90: deleteMany of the sliced ids.
PruneDelete ==
  /\ retention.pc = "delete"
  /\ retention' = NextService(
       [retention EXCEPT !.rows = [r \in RowIds |->
                                    IF r \in retention.toDelete /\ @[r] # "NONE"
                                    THEN "DELETED" ELSE @[r]]])
  /\ UNCHANGED <<coreVars, realtime, metrics, probe, routing>>

Prune == PruneStart \/ PruneRead \/ PruneDelete

InitRetention ==
  /\ hcPath = FALSE
  /\ repoMb = 100
  /\ InitFresh
  /\ InitRest
  /\ InitUtil

\* cleanupOldDeployments running with nothing interleaved, over the rows of
\* two services.
NextRetention ==
  \/ /\ retention.pc = "idle"
     /\ \E s \in ServiceIds : CreateDeployment(s)
  \/ Prune

SpecRetention == InitRetention /\ [][NextRetention]_vars

\* cleanupOldDeployments beside the requests and the build worker of one
\* service.
NextInFlight ==
  \/ CreateDeployment(1)
  \/ \E r \in RowIds : StartJob(r)
  \/ \E r \in RowIds : FinishJob(r)
  \/ Prune

SpecInFlight == InitRetention /\ [][NextInFlight]_vars

\* ---- realtime events ------------------------------------------------------------
Event(type, body) == [type |-> type, body |-> body]

\* emitRealtimeEvent lines 109-145: the room an event type is emitted to.
roomOf(e) == IF e.type \in {"deployment:log", "deployment:status"}
             THEN "deployment" ELSE "service"

\* io.to(room).emit: the event reaches the sockets joined to the room.
emitTo(rcv, joined, e) ==
  [k \in Sockets |-> IF roomOf(e) \in joined[k] THEN Append(rcv[k], e) ELSE rcv[k]]

\* A channel that hands a message to the subscriber ahead of older ones.
publishAhead(channel, e) == <<e>> \o channel

\* publishRealtimeEvent lines 25-31: redis.publish on the worker's one
\* connection; the commands of a connection are sent and served in call order.
publish(channel, e) == Append(channel, e)

\* subscribe:deployment / subscribe:service, lines 187-200: socket.join.
Subscribe(k, room) ==
  /\ room \notin realtime.joined[k]
  /\ room \notin realtime.left[k]
  /\ realtime' = [realtime EXCEPT !.joined[k] = @ \cup {room}]
  /\ UNCHANGED <<coreVars, retention, metrics, probe, routing>>

\* unsubscribe:deployment / unsubscribe:service, lines 192-206: socket.leave.
Unsubscribe(k, room) ==
  /\ room \in realtime.joined[k]
  /\ realtime' = [realtime EXCEPT !.joined[k] = @ \ {room}, !.left[k] = @ \cup {room}]
  /\ UNCHANGED <<coreVars, retention, metrics, probe, routing>>

\* deploymentRouter.post('/') lines 135-151: the row, the Service, the job.
ApiEnqueue ==
  /\ realtime.api = "idle"
  /\ realtime' = [realtime EXCEPT !.api = "added", !.row = "QUEUED",
                                  !.service = "DEPLOYING", !.worker = "waiting"]
  /\ UNCHANGED <<coreVars, retention, metrics, probe, routing>>

\* lines 153-155: emitDeploymentStatus(QUEUED) and emitServiceStatus(DEPLOYING)
\* once buildQueue.add has resolved.
ApiEmit ==
  /\ realtime.api = "added"
  /\ realtime' = [realtime EXCEPT
                    !.api = "done",
                    !.received = emitTo(emitTo(@, realtime.joined,
                                               Event("deployment:status", "QUEUED")),
                                        realtime.joined,
                                        Event("service:status", "DEPLOYING"))]
  /\ UNCHANGED <<coreVars, retention, metrics, probe, routing>>

\* The build worker takes the job.
Take ==
  /\ realtime.worker = "waiting"
  /\ realtime' = [realtime EXCEPT !.worker = "leased"]
  /\ UNCHANGED <<coreVars, retention, metrics, probe, routing>>

\* buildWorker's processor, index.ts line 149.
PublishBuilding ==
  /\ realtime.worker = "leased"
  /\ realtime' = [realtime EXCEPT
                    !.worker = "building",
                    !.channel = publish(@, Event("deployment:status", "BUILDING"))]
  /\ UNCHANGED <<coreVars, retention, metrics, probe, routing>>

\* line 150.
PublishDeploying ==
  /\ realtime.worker = "building"
  /\ realtime' = [realtime EXCEPT
                    !.worker = "deploying",
                    !.channel = publish(@, Event("service:status", "DEPLOYING"))]
  /\ UNCHANGED <<coreVars, retention, metrics, probe, routing>>

\* processDeployment lines 26-29.
UpdateBuilding ==
  /\ realtime.worker = "deploying"
  /\ realtime' = [realtime EXCEPT !.worker = "running", !.row = "BUILDING"]
  /\ UNCHANGED <<coreVars, retention, metrics, probe, routing>>

\* appendLog through createLogCallback, index.ts lines 126-140: the publish
\* is not awaited, its command is queued at the call.
Log ==
  /\ realtime.worker = "running"
  /\ realtime.lines < MaxLogs
  /\ realtime' = [realtime EXCEPT
                    !.lines = @ + 1,
                    !.channel = publish(@, Event("deployment:log",
                                                 LogLines[realtime.lines + 1]))]
  /\ UNCHANGED <<coreVars, retention, metrics, probe, routing>>

\* processDeployment returns its result.
Returned(success) ==
  /\ realtime.worker = "running"
  /\ realtime.lines > 0
  /\ realtime' = [realtime EXCEPT !.worker = "returned", !.success = success]
  /\ UNCHANGED <<coreVars, retention, metrics, probe, routing>>

Outcome(rt) == IF rt.success THEN "SUCCESS" ELSE "FAILED"

ServiceOutcome(rt) == IF rt.success THEN "RUNNING" ELSE "FAILED"

\* handleJobCompleted lines 65-72 / 82-90.
WriteDeployment ==
  /\ realtime.worker = "returned"
  /\ realtime' = [realtime EXCEPT !.worker = "rowwritten", !.row = Outcome(realtime)]
  /\ UNCHANGED <<coreVars, retention, metrics, probe, routing>>

\* A hook that goes on to the publications without the Service write.
WriteServiceSkipped ==
  /\ realtime.worker = "rowwritten"
  /\ realtime' = [realtime EXCEPT !.worker = "written"]
  /\ UNCHANGED <<coreVars, retention, metrics, probe, routing>>

\* lines 73-76 / 92-98.
WriteService ==
  /\ realtime.worker = "rowwritten"
  /\ realtime' = [realtime EXCEPT !.worker = "written",
                                  !.service = ServiceOutcome(realtime)]
  /\ UNCHANGED <<coreVars, retention, metrics, probe, routing>>

\* line 77 / 100.
PublishTerminal ==
  /\ realtime.worker = "written"
  /\ realtime' = [realtime EXCEPT
                    !.worker = "published",
                    !.channel = publish(@, Event("deployment:status", Outcome(realtime)))]
  /\ UNCHANGED <<coreVars, retention, metrics, probe, routing>>

\* line 78 / 101.
PublishServiceTerminal ==
  /\ realtime.worker = "published"
  /\ realtime' = [realtime EXCEPT
                    !.worker = "done",
                    !.channel = publish(@, Event("service:status", ServiceOutcome(realtime)))]
  /\ UNCHANGED <<coreVars, retention, metrics, probe, routing>>

\* redisSubscriber.on('message') lines 147-154: the oldest message of the
\* channel goes through emitRealtimeEvent.
Deliver ==
  /\ realtime.channel # <<>>
  /\ realtime' = [realtime EXCEPT
                    !.channel = Tail(@),
                    !.received = emitTo(@, realtime.joined, Head(realtime.channel))]
  /\ UNCHANGED <<coreVars, retention, metrics, probe, routing>>

RealtimeWorker ==
  \/ Take \/ PublishBuilding \/ PublishDeploying \/ UpdateBuilding \/ Log
  \/ \E success \in BOOLEAN : Returned(success)
  \/ WriteDeployment \/ WriteService \/ PublishTerminal \/ PublishServiceTerminal

\* The owner's socket joining and leaving the rooms at any moment.
NextRealtime ==
  \/ ApiEnqueue
  \/ ApiEmit
  \/ RealtimeWorker
  \/ Deliver
  \/ \E room \in Rooms : Subscribe(Owner, room)
  \/ \E room \in Rooms : Unsubscribe(Owner, room)

SpecRealtime == InitRetention /\ [][NextRealtime]_vars

\* The sockets of both users asking for the rooms at any moment.
NextSockets ==
  \/ ApiEnqueue
  \/ ApiEmit
  \/ RealtimeWorker
  \/ Deliver
  \/ \E k \in Sockets, room \in Rooms : Subscribe(k, room)

SpecSockets == InitRetention /\ [][NextSockets]_vars

\* ---- metrics subscriptions -------------------------------------------------------
mainVars == <<hcPath, repoMb, dep, waiting, job, containers, nextCid, cancel, sweep, hub,
              resp, envelope, taken, signup, webhook, retention, realtime, probe,
              routing>>

\* subscribe:service lines 197-202: join and subscribedServices.add.
SubscribeService(k) ==
  /\ k \notin metrics.room
  /\ metrics' = [metrics EXCEPT !.room = @ \cup {k}, !.subscribed = TRUE]
  /\ UNCHANGED <<mainVars, svc, lastEvent>>

\* unsubscribe:service lines 204-208: leave, then removeServiceIfNoListeners
\* (lines 24-29).
UnsubscribeService(k) ==
  /\ k \in metrics.room
  /\ metrics' = [metrics EXCEPT !.room = @ \ {k},
                                !.subscribed = IF metrics.room = {k} THEN FALSE ELSE @]
  /\ UNCHANGED <<mainVars, svc, lastEvent>>

\* disconnect lines 210-212: the socket leaves its rooms, the handler only logs.
Disconnect(k) ==
  /\ k \in metrics.room
  /\ metrics' = [metrics EXCEPT !.room = @ \ {k}]
  /\ UNCHANGED <<mainVars, svc, lastEvent>>

\* emitMetricsForSubscribers lines 32-47 at a tick: an id that is not in
\* subscribedServices is not visited; an id with an empty room is deleted; a
\* service that is not RUNNING on a container is skipped.
TickRead ==
  /\ metrics.pc = "idle"
  /\ metrics' =
       IF ~metrics.subscribed THEN [metrics EXCEPT !.last = "unlisted"]
       ELSE IF metrics.room = {} THEN [metrics EXCEPT !.subscribed = FALSE, !.last = "empty"]
       ELSE IF svc.containerId = Null \/ svc.status # "RUNNING"
            THEN [metrics EXCEPT !.last = "skipped"]
       ELSE [metrics EXCEPT !.pc = "stats", !.cid = svc.containerId]
  /\ UNCHANGED <<mainVars, svc, lastEvent>>

\* lines 49-85: container.stats and the service:metrics emit, or the 404 of a
\* container that is gone.
TickStats ==
  /\ metrics.pc = "stats"
  /\ metrics' = IF containers[metrics.cid].state = "absent"
                THEN [metrics EXCEPT !.pc = "write"]
                ELSE [metrics EXCEPT !.pc = "idle", !.cid = Null, !.last = "sampled"]
  /\ UNCHANGED <<mainVars, svc, lastEvent>>

\* lines 86-98: STOPPED / containerId null, the service:status emit and
\* subscribedServices.delete.
TickWrite ==
  /\ metrics.pc = "write"
  /\ svc' = Touch([svc EXCEPT !.containerId = Null, !.status = "STOPPED"])
  /\ lastEvent' = "STOPPED"
  /\ metrics' = [metrics EXCEPT !.pc = "idle", !.cid = Null, !.subscribed = FALSE,
                                !.last = "dropped"]
  /\ UNCHANGED mainVars

NextMetrics ==
  \/ Trigger
  \/ \E q \in Queues : Lease(q)
  \/ \E d \in NewDepIds : Pipeline(d)
  \/ \E k \in Sockets : SubscribeService(k)
  \/ \E k \in Sockets : UnsubscribeService(k)
  \/ \E k \in Sockets : Disconnect(k)
  \/ TickRead \/ TickStats \/ TickWrite

SpecMetrics == Init /\ [][NextMetrics]_vars

\* ---- health check probe -----------------------------------------------------------
MinOf(a, b) == IF a <= b THEN a ELSE b

\* A backoff without the cap.
backoffUncapped(attempt) == 1000 * 2 ^ (attempt - 1)

\* Math.min(1000 * Math.pow(2, attempt - 1), 10000), lines 46 and 62.
backoff(attempt) == MinOf(1000 * 2 ^ (attempt - 1), 10000)

\* line 54.
isSuccess(statusCode) == statusCode >= 200 /\ statusCode < 400

\* lines 36-40: the options, then the start delay.
ProbeStart(retries) ==
  /\ probe.pc = "none"
  /\ probe' = [NoProbe EXCEPT !.pc = "attempt", !.retries = retries, !.attempt = 1]
  /\ UNCHANGED <<coreVars, retention, realtime, metrics, routing>>

\* One pass of the loop, lines 42-64: getContainerIp, httpGet, and either
\* the return or the sleep before the next attempt.
ProbeAttempt(outcome, statusCode) ==
  /\ probe.pc = "attempt"
  /\ probe' =
       IF outcome = "answer" /\ isSuccess(statusCode)
       THEN [probe EXCEPT !.pc = "done", !.result = TRUE,
                          !.last = outcome, !.code = statusCode]
       ELSE IF probe.attempt < probe.retries
            THEN [probe EXCEPT !.pc = "sleep", !.last = outcome, !.code = statusCode,
                               !.waits = Append(@, backoff(probe.attempt))]
            ELSE [probe EXCEPT !.pc = "done", !.result = FALSE,
                               !.last = outcome, !.code = statusCode]
  /\ UNCHANGED <<coreVars, retention, realtime, metrics, routing>>

\* The sleep is over: attempt++.
ProbeWake ==
  /\ probe.pc = "sleep"
  /\ probe' = [probe EXCEPT !.pc = "attempt", !.attempt = @ + 1]
  /\ UNCHANGED <<coreVars, retention, realtime, metrics, routing>>

NextProbe ==
  \/ \E retries \in RetriesOptions : ProbeStart(retries)
  \/ \E outcome \in ProbeFailures : ProbeAttempt(outcome, 0)
  \/ \E statusCode \in StatusCodes : ProbeAttempt("answer", statusCode)
  \/ ProbeWake

SpecProbe == InitRetention /\ [][NextProbe]_vars

\* ---- traefik labels -----------------------------------------------------------------
\* A label is a key and a value, both sequences of the strings they are
\* made of; setting a key replaces the label that had it.
setLabel(labels, key, value) ==
  {l \in labels : l.key # key} \cup {[key |-> key, value |-> value]}

\* DOCKER_LABELS.TRAEFIK_ROUTER_*(name) and traefik.http.routers.<name>.service.
routerKey(routerName, field) == <<"traefik.http.routers">> \o routerName \o <<field>>

\* The labels of a router that are set when TLS is on, lines 50-53 / 62-65.
tlsLabels(labels, routerName, tls) ==
  IF tls
  THEN setLabel(setLabel(labels, routerKey(routerName, "tls"), <<"true">>),
                routerKey(routerName, "tls.certresolver"), <<"letsencrypt">>)
  ELSE labels

\* runContainer lines 41-53: the router of the subdomain host and the
\* service of the container.
baseLabels(name, tls) ==
  tlsLabels(
    setLabel(setLabel(setLabel(setLabel(setLabel(setLabel(setLabel({},
      <<"traefik.enable">>, <<"true">>),
      <<"traefik.docker.network">>, <<"renderlite">>),
      routerKey(<<name>>, "rule"), <<"Host", SubdomainHost>>),
      routerKey(<<name>>, "entrypoints"), <<IF tls THEN "websecure" ELSE "web">>),
      <<"traefik.http.services", name, "loadbalancer.server.port">>, <<"3000">>),
      <<"renderlite.managed">>, <<"true">>),
      <<"renderlite.subdomain">>, <<"api-x">>),
    <<name>>, tls)

\* lines 56-66: the loop over customDomains, router <name>-domain-<i>.
RECURSIVE domainLabels(_, _, _, _, _)
domainLabels(labels, name, tls, customDomains, i) ==
  IF i > Len(customDomains) THEN labels
  ELSE domainLabels(
         tlsLabels(
           setLabel(setLabel(setLabel(labels,
             routerKey(<<name, "domain", IndexNames[i]>>, "rule"),
                       <<"Host", customDomains[i]>>),
             routerKey(<<name, "domain", IndexNames[i]>>, "entrypoints"),
                       <<IF tls THEN "websecure" ELSE "web">>),
             routerKey(<<name, "domain", IndexNames[i]>>, "service"), <<name>>),
           <<name, "domain", IndexNames[i]>>, tls),
         name, tls, customDomains, i + 1)

buildLabels(name, tls, customDomains) ==
  domainLabels(baseLabels(name, tls), name, tls, customDomains, 1)

\* The orders in which a query may return a set of rows.
Orderings(S) ==
  {seq \in [1..Cardinality(S) -> S] : \A i, j \in 1..Cardinality(S) : i # j => seq[i] # seq[j]}

\* A query that returns every Domain row of the service.
findManyDomainsAny(rows) == {h \in Hostnames : rows[h] # "none"}

\* prisma.domain.findMany where verified: true, deployment.ts lines 76-80 /
\* 264-268.
findManyDomains(rows) == {h \in Hostnames : rows[h] = "verified"}

\* The user adds a domain to the service, or its DNS check verifies it, at
\* any moment of the pipeline.
SetDomain(h) ==
  /\ routing.rows[h] # "verified"
  /\ routing' = [routing EXCEPT !.rows[h] = IF @ = "none" THEN "unverified" ELSE "verified"]
  /\ UNCHANGED <<coreVars, retention, realtime, metrics, probe>>

\* The pipeline reads the domains it will pass to runContainer.
FetchDomains ==
  /\ routing.pc = "idle"
  /\ \E seq \in Orderings(findManyDomains(routing.rows)) :
       routing' = [routing EXCEPT !.pc = "fetched", !.customDomains = seq]
  /\ UNCHANGED <<coreVars, retention, realtime, metrics, probe>>

\* runContainer under the canonical or the staging name, with or without TLS.
RunLabels(name, tls) ==
  /\ routing.pc = "fetched"
  /\ routing' = [routing EXCEPT !.pc = "labelled", !.name = name, !.tls = tls,
                                !.labels = buildLabels(name, tls, routing.customDomains)]
  /\ UNCHANGED <<coreVars, retention, realtime, metrics, probe>>

NextRouting ==
  \/ \E h \in Hostnames : SetDomain(h)
  \/ FetchDomains
  \/ \E name \in ContainerNames, tls \in BOOLEAN : RunLabels(name, tls)

SpecRouting == InitRetention /\ [][NextRouting]_vars

\* ---- claims -----------------------------------------------------------------

\* C1: once a Deployment row is SUCCESS or FAILED its status never changes
\* again, under every interleaving of trigger, rollback, cancel and the workers.
C1_TerminalRowsImmutable ==
  [][\A d \in DepIds : dep[d].status \in Terminal => dep'[d].status = dep[d].status]_vars

\* C2: in every reachable state a Service with status RUNNING has a
\* containerId, under any interleaving of the hooks, cancel, the metrics hub
\* and the reconciler sweeps.
C2_RunningHasContainerId ==
  svc.status = "RUNNING" => svc.containerId # Null

InProgress ==
  \E d \in NewDepIds :
    \/ dep[d].status \in {"QUEUED", "BUILDING"}
    \/ job[d].pc \notin {"none", "done", "cancelled"}

\* C3: whenever the Service is RUNNING and no deployment of it is in progress,
\* its containerId names a container that exists and is running.
C3_RunningContainerIsUp ==
  (svc.status = "RUNNING" /\ ~InProgress)
    => /\ svc.containerId # Null
       /\ containers[svc.containerId].state = "running"

\* No other deployment has been picked up by a worker yet.
OthersNotStarted(d) ==
  \A e \in NewDepIds \ {d} : job[e].pc \in {"none", "waiting"}

RunningNamed(n) == {c \in Named(containers, n) : containers[c].state = "running"}

\* C4: when a deployment has just ended SUCCESS, whether its best-effort
\* removals succeeded or failed, exactly one canonical container is running
\* and no container carries the staging name.
C4_OneCanonicalNoStaging ==
  \A d \in NewDepIds :
    (job[d].pc = "hooksvc" /\ job[d].res = "ok" /\ dep[d].status = "SUCCESS"
       /\ OthersNotStarted(d))
      => /\ Cardinality(RunningNamed("canonical")) = 1
         /\ Named(containers, "new") = {}

\* C5: once a cancel has answered with success, the cancelled deployment has
\* no job waiting in either queue and no worker is processing it, and its row
\* is FAILED.
C5_CancelledJobGone ==
  \A d \in NewDepIds :
    (dep[d].logs = "cancelled" /\ cancel.pc = "idle")
      => /\ job[d].pc # "waiting"
         /\ ~InProcessor(d)
         /\ dep[d].status = "FAILED"

\* C6: a cancel whose deployment is no longer QUEUED when its removal step
\* runs returns an error and leaves the rows and the queues as they were.
C6_CancelOnlyQueued ==
  [][\A d \in NewDepIds :
       (cancel.pc = "remove" /\ cancel.d = d /\ cancel' # cancel
          /\ dep[d].status # "QUEUED")
         => /\ cancel'.pc = "idle"
            /\ UNCHANGED <<dep, svc, waiting, job>>]_vars

\* C7: with the workers running fairly, every Deployment row that exists
\* eventually becomes SUCCESS or FAILED, also after a worker crash and after a
\* request that failed between creating the row and enqueueing the job.
C7_EveryRowTerminates ==
  \A d \in NewDepIds :
    [](dep[d].status \in {"QUEUED", "BUILDING"} => <>(dep[d].status \in Terminal))

\* C8: after a blue/green deployment failed because the staging container
\* never became healthy, the Service is RUNNING with the old containerId and
\* the Deployment is FAILED.
C8_HealthFailureKeepsRunning ==
  \A d \in NewDepIds :
    (job[d].bg /\ job[d].res = "hcfail" /\ job[d].pc = "done" /\ OthersNotStarted(d))
      => /\ svc.status = "RUNNING"
         /\ svc.containerId = job[d].existing
         /\ dep[d].status = "FAILED"

\* C9: a blue/green deployment that ends SUCCESS passed through no state in
\* which no running container carried the Service's Host rule.
C9_AlwaysRouted ==
  \A d \in NewDepIds :
    (job[d].bg /\ job[d].res = "ok" /\ job[d].pc \in {"ret", "hooksvc", "done"})
      => ~job[d].gap

BlueGreenStates == {"runstaging", "health", "rmstaging_f", "rmold", "rmstaging", "runcanon"}
TraditionalStates == {"stopold", "run", "thealth", "rmnew"}

ModeByContainerAndPath ==
  \A d \in NewDepIds :
    /\ job[d].pc \in BlueGreenStates => (job[d].existing # Null /\ hcPath)
    /\ job[d].pc \in TraditionalStates => ~(job[d].existing # Null /\ hcPath)

OldKeptUntilHealthy ==
  \A d \in NewDepIds :
    (job[d].pc \in {"runstaging", "health", "rmstaging_f"} /\ job'[d].pc # job[d].pc)
      => containers'[job[d].existing] = containers[job[d].existing]

UnhealthyStagingRemoved ==
  \A d \in NewDepIds :
    (job[d].bg /\ job[d].res = "hcfail")
      => /\ containers[job[d].cid].state = "absent"
         /\ job[d].pc \in {"hooksvc", "done"} => dep[d].status = "FAILED"

C11_SuccessHasImageTag ==
  \A d \in DepIds : dep[d].status = "SUCCESS" => dep[d].imageTag # Null

C11_Witness ==
  \E d, e \in NewDepIds :
    /\ job[d].q = "build" /\ dep[d].status = "SUCCESS" /\ dep[d].imageTag # Null
    /\ job[e].q = "rollback" /\ dep[e].status = "SUCCESS" /\ dep[e].imageTag # Null

\* The jobs that carry deployment id d: waiting in a queue or held by a worker.
JobsWithId(d) ==
  Cardinality({i \in 1..Len(waiting["build"]) : waiting["build"][i] = d})
  + Cardinality({i \in 1..Len(waiting["rollback"]) : waiting["rollback"][i] = d})
  + (IF InProcessor(d) THEN 1 ELSE 0)

AtMostOneJobPerId == \A d \in DepIds : JobsWithId(d) <= 1

EnqueueUsesNewRow ==
  \A q \in Queues :
    Len(waiting'[q]) > Len(waiting[q])
      => LET id == waiting'[q][Len(waiting'[q])]
         IN dep[id].status = "NONE" /\ dep'[id].status = "QUEUED"

RejectedLeavesNoTrace ==
  resp' # resp
    => /\ resp' = "400"
       /\ \E t \in DepIds : /\ dep[t].status # "NONE"
                             /\ (dep[t].status # "SUCCESS" \/ dep[t].imageTag = Null)
       /\ UNCHANGED <<dep, waiting, job, svc>>

AcceptedHasValidTarget ==
  Len(waiting'["rollback"]) > Len(waiting["rollback"])
    => LET id == waiting'["rollback"][Len(waiting'["rollback"])]
       IN \E t \in DepIds :
            /\ dep[t].status = "SUCCESS" /\ dep[t].imageTag # Null
            /\ dep'[id].imageTag = dep[t].imageTag
            /\ dep'[id].commitSha = dep[t].commitSha

\* C13: a rollback request whose target is not SUCCESS or has no imageTag is
\* answered with a validation error and creates no row, enqueues no job and
\* leaves the Service as it was; only a valid target yields a rollback job.
C13_InvalidRollbackRejected ==
  /\ [][RejectedLeavesNoTrace]_vars
  /\ [][AcceptedHasValidTarget]_vars

C13_Witness ==
  /\ resp = "400"
  /\ \A t \in DepIds : dep[t].status \in {"NONE", "FAILED"}
  /\ \E t \in DepIds : dep[t].status = "FAILED" /\ dep[t].imageTag # Null
  /\ \A d \in NewDepIds : job[d].q # "rollback"

RollbackJobs == {d \in NewDepIds : job[d].q = "rollback"}

RollbackCopiesTarget ==
  Len(waiting'["rollback"]) > Len(waiting["rollback"])
    => LET id == waiting'["rollback"][Len(waiting'["rollback"])]
       IN \E t \in DepIds :
            /\ dep[t].status = "SUCCESS"
            /\ dep'[id].imageTag = dep[t].imageTag
            /\ dep'[id].commitSha = dep[t].commitSha
            /\ job'[id].tag = dep[t].imageTag

RollbackSkipsCloneAndBuild ==
  \A d \in RollbackJobs :
    /\ job[d].pc \notin {"clone", "build"}
    /\ dep[d].imageTag = job[d].tag

RollbackKeepsImage ==
  \A d \in RollbackJobs :
    /\ dep'[d].imageTag = dep[d].imageTag
    /\ dep'[d].commitSha = dep[d].commitSha

RollbackStartsFromImage ==
  \A d \in RollbackJobs :
    /\ job'[d].cid # job[d].cid
         => /\ containers[job'[d].cid].state = "absent"
            /\ containers'[job'[d].cid].state = "running"
            /\ containers'[job'[d].cid].image = job[d].tag
    /\ (job[d].pc = "hooksvc" /\ job'[d].pc = "done" /\ job[d].res = "ok")
         => svc'.containerId = job[d].cid

\* C14: a rollback row is created with the target's imageTag and commitSha,
\* its pipeline never clones or builds, the row keeps that imageTag through
\* SUCCESS, and the containerId its hook records is the container the
\* pipeline started from that image.
C14_RollbackReusesImage ==
  /\ [][RollbackCopiesTarget]_vars
  /\ []RollbackSkipsCloneAndBuild
  /\ [][RollbackKeepsImage]_vars
  /\ [][RollbackStartsFromImage]_vars

C14_Witness ==
  \E d \in RollbackJobs :
    /\ job[d].pc = "done" /\ dep[d].status = "SUCCESS"
    /\ dep[d].imageTag = PrevCommit /\ dep[d].commitSha = PrevCommit
    /\ \E e \in NewDepIds : dep[e].status = "SUCCESS" /\ dep[e].imageTag = HeadCommit
    /\ svc.containerId = job[d].cid
    /\ containers[svc.containerId].state = "running"
    /\ containers[svc.containerId].image = PrevCommit

Drifted ==
  /\ svc.status = "RUNNING"
  /\ svc.containerId # Null
  /\ ~isContainerRunning(containers, svc.containerId)

DriftRepaired ==
  sweep.pc = "failedread"
    => /\ ~Drifted
       /\ \A c \in Cids : containers[c].state # "exited"

DriftSweepWrites ==
  (sweep.pc \in {"idle", "driftcheck", "driftwrite", "reap"} /\ sweep' # sweep)
    => /\ dep' = dep
       /\ (sweep.pc = "driftcheck" /\ Drifted) => sweep'.pc = "driftwrite"
       /\ svc' # svc => /\ Drifted
                        /\ svc'.status = "STOPPED"
                        /\ svc'.containerId = Null

\* C15: when a drift-detection sweep has run with nothing else moving, the
\* Service is not RUNNING over a container that is not running (it was set
\* to STOPPED with containerId null), the sweep created no Deployment row,
\* and no container in state exited is left.
C15_DriftSweepRepairs ==
  /\ []DriftRepaired
  /\ [][DriftSweepWrites]_vars

C15_Witness ==
  /\ sweep.pc = "failedread"
  /\ svc.status = "STOPPED"
  /\ svc.containerId = Null
  /\ \E d \in NewDepIds : dep[d].status = "SUCCESS" /\ containers[job[d].cid].state = "absent"

\* C16: whenever the drift detection sets the Service to STOPPED, a
\* service:status event with status STOPPED goes out to the room of the service.
C16_DriftStopIsAnnounced ==
  [][(sweep.pc = "driftwrite" /\ svc'.status = "STOPPED" /\ svc.status # "STOPPED")
       => lastEvent' = "STOPPED"]_vars

RunningContainers == {c \in Cids : containers[c].state = "running"}

\* C18: whenever the Service's status is not DEPLOYING, at most one container
\* of the service (canonical or -new name) is running, also while another
\* deployment or rollback of the service is still in progress.
C18_OneLiveContainerWhenStable ==
  svc.status # "DEPLOYING" => Cardinality(RunningContainers) <= 1

\* ---- C19 --------------------------------------------------------------------

EnvelopeHasThreeHexParts ==
  envelope.pc = "stored"
    => LET parts == split(envelope.value)
       IN /\ Len(parts) = 3
          /\ \A k \in 1..3 : \A i \in 1..Len(parts[k]) : isHex(parts[k][i])
          /\ Len(parts[1]) = 2 * IV_LENGTH
          /\ Len(parts[2]) = 2 * AUTH_TAG_LENGTH
          /\ Len(parts[3]) = 2 * Len(envelope.plain)

RoundTrip ==
  (envelope.pc = "done" /\ envelope.altered = "none")
    => envelope.out = [ok |-> TRUE, text |-> envelope.plain]

RejectsWrongComponentCount ==
  (envelope.pc = "done" /\ Len(split(envelope.value)) # 3) => ~envelope.out.ok

FailsWhenAltered ==
  (envelope.pc = "done" /\ envelope.altered \in {"ciphertext", "tag"})
    => ~envelope.out.ok

\* C19: decrypt(encrypt(s)) = s for every plaintext, the empty one and those
\* with ':' included; encrypt emits exactly three colon-separated hex
\* components iv:authTag:ciphertext; decrypt rejects a value that does not
\* split into exactly three components and fails when the ciphertext or the
\* authentication tag has been altered.
C19_EnvelopeRoundTripAndIntegrity ==
  /\ EnvelopeHasThreeHexParts
  /\ RoundTrip
  /\ RejectsWrongComponentCount
  /\ FailsWhenAltered

\* ---- C20 --------------------------------------------------------------------

UniqueSubdomains == \A s \in Suffixes : taken[s] <= 1

ReturnsOnlyFree ==
  \A p \in Creators :
    (signup[p].pc = "lookup" /\ signup'[p].pc = "create")
      => /\ taken[signup[p].subdomain] = 0
         /\ signup'[p].subdomain = signup[p].subdomain

AtMostTenRedraws == \A p \in Creators : signup[p].attempts <= RedrawLimit

FailsAfterTenCollisions ==
  \A p \in Creators :
    /\ (signup[p].pc = "lookup" /\ signup'[p].pc = "nosubdomain")
         => signup[p].attempts = RedrawLimit /\ taken[signup[p].subdomain] > 0
    /\ (/\ signup[p].pc = "lookup"
        /\ signup[p].attempts = RedrawLimit
        /\ taken[signup[p].subdomain] > 0
        /\ signup'[p] # signup[p])
         => signup'[p].pc = "nosubdomain"

\* C20: no two Service rows ever hold the same subdomain, the rows of
\* concurrent creations included; generateSubdomain returns only a subdomain
\* that its lookup found held by no service, redrawing up to 10 times, and
\* the creation fails when the tenth redraw still collides.
C20_SubdomainsAreUnique ==
  /\ [](UniqueSubdomains /\ AtMostTenRedraws)
  /\ [][ReturnsOnlyFree /\ FailsAfterTenCollisions]_vars

C20_Witness ==
  \E p, q \in Creators :
    /\ p # q
    /\ signup[p].pc = "created"
    /\ signup[q].pc = "conflict"
    /\ signup[p].subdomain = signup[q].subdomain

\* ---- C21 --------------------------------------------------------------------

BuildJobs == {d \in NewDepIds : job[d].q = "build"}

\* C21: a build deployment whose cloned repository exceeds MAX_REPO_SIZE_MB
\* ends FAILED and neither builds an image nor starts a container.
C21_OversizedRepoRejected ==
  repoMb > MAX_REPO_SIZE_MB
    => \A d \in BuildJobs :
         /\ dep[d].status # "SUCCESS"
         /\ dep[d].imageTag = Null
         /\ job[d].tag = Null
         /\ job[d].cid = Null

\* ---- C22 --------------------------------------------------------------------

\* C22: every Deployment row with status SUCCESS or FAILED has a non-empty
\* logs field, whichever of the completion hook, the failure hook and the
\* cancel handler wrote the status.
C22_TerminalRowHasLogs ==
  \A d \in DepIds : dep[d].status \in Terminal => dep[d].logs \notin {"none", ""}

C22_Witness ==
  \E a, b \in NewDepIds :
    /\ dep[a].status = "FAILED" /\ dep[a].logs = "cancelled"
    /\ dep[b].status \in Terminal /\ dep[b].logs = "lines"

\* ---- C23 --------------------------------------------------------------------

MatchingPush(w) ==
  /\ w.signature = hmacSha256(WebhookSecret, w.ref)
  /\ w.event = "push"
  /\ w.ref = <<"refs", "heads", "main">>

RowCreated == \E d \in NewDepIds : dep[d].status = "NONE" /\ dep'[d].status # "NONE"

OneNewQueuedRowWithJob ==
  \E d \in NewDepIds :
    /\ dep[d].status = "NONE"
    /\ dep'[d].status = "QUEUED"
    /\ \A e \in DepIds \ {d} : dep'[e] = dep[e] /\ job'[e] = job[e]
    /\ job[d].pc = "none"
    /\ job'[d].pc = "waiting"
    /\ waiting'["build"] = Append(waiting["build"], d)
    /\ waiting'["rollback"] = waiting["rollback"]

C24_CloneStopsAtTimeout ==
  \A d \in NewDepIds :
    job[d].timer = "fired"
      => /\ job[d].pc \in {"ret", "hooksvc", "done"}
         /\ job[d].res = "error"
         /\ dep[d].status # "SUCCESS"

\* ---- C25 --------------------------------------------------------------------

Failures == {"error", "hcfail"}

FailureIsAResult ==
  \A d \in NewDepIds :
    job[d].res \in Failures
      => /\ job[d].pc \in {"ret", "hooksvc", "done"}
         /\ job[d].attempts = 1
         /\ \A q \in Queues : \A i \in 1..Len(waiting[q]) : waiting[q][i] # d
         /\ job[d].events = IF job[d].pc = "done" THEN 1 ELSE 0
         /\ job[d].pc \in {"hooksvc", "done"} => dep[d].status = "FAILED"

FailureStaysCompleted ==
  \A d \in NewDepIds :
    job[d].res \in Failures
      => /\ job'[d].res = job[d].res
         /\ job'[d].attempts = job[d].attempts
         /\ (job[d].pc = "hooksvc" /\ job'[d].pc = "done") => svc'.status = "FAILED"

\* C25: a failure inside processDeployment or processRollback is returned
\* as a result, so the job completes on its first attempt and is never
\* handed out again; the completion hook writes Deployment FAILED and
\* Service FAILED and publishes the terminal event exactly once.
C25_FailureCompletesTheJob ==
  /\ []FailureIsAResult
  /\ [][FailureStaysCompleted]_vars

C25_Witness ==
  \E a, b \in NewDepIds :
    /\ job[a].q = "build" /\ job[a].res = "error" /\ job[a].pc = "done"
    /\ job[b].q = "rollback" /\ job[b].res = "hcfail" /\ job[b].pc = "done"

\* ---- C26 --------------------------------------------------------------------



\* C26: runContainer replaces whatever container bears the target name,
\* running or stopped, and returns a newly started container of that name;
\* so the runContainer of a traditional redeploy, which follows the stop of
\* the old container, succeeds.
C26_RunContainerReplacesNamed ==
  [][\A d \in NewDepIds :
       (job[d].pc \in RunSteps /\ job'[d].pc # job[d].pc)
         => /\ job'[d].res # "error"
            /\ job'[d].cid # Null
            /\ containers[job'[d].cid].state = "absent"
            /\ containers'[job'[d].cid].state = "running"
            /\ Named(containers', NameOfStep(job[d].pc)) = {job'[d].cid}]_vars

\* ---- C27 --------------------------------------------------------------------

\* C27: on every exit path of processDeployment the work directory of the
\* deployment has been deleted when the function returns.
C27_WorkDirDeletedOnReturn ==
  \A d \in NewDepIds :
    job[d].pc \in {"ret", "hooksvc", "done"} => ~job[d].workdir

\* ---- C28 --------------------------------------------------------------------

\* C28: when a pipeline aborts with an exception after it created or started a
\* container, that container has been removed when the pipeline returns: no
\* container made by the failed pipeline remains.
C28_FailedPipelineLeavesNoContainer ==
  \A d \in NewDepIds :
    (job[d].pc = "ret" /\ job[d].res = "error")
      => \A c \in job[d].made : containers[c].state = "absent"

\* ---- C29 --------------------------------------------------------------------

\* C29: when the failed-container sweep has finished, a Service it selected
\* (FAILED, containerId not null, updatedAt older than 24 h) has containerId
\* null and its container is gone, also when the container had been removed
\* before; a Service it did not select, and the containers, are unchanged.
C29_FailedSweepClearsContainer ==
  [][/\ (sweep.pc \in {"failedremove", "failedwrite"} /\ sweep'.pc = "idle")
          => /\ svc'.containerId = Null
             /\ containers'[sweep.cid].state = "absent"
     /\ (sweep.pc = "failedread" /\ sweep'.pc = "idle")
          => /\ svc' = svc
             /\ containers' = containers]_vars

\* ---- C30 --------------------------------------------------------------------

\* The containers a pipeline in progress works with: the one it read from
\* the Service row and the one it started.
UsedBy(d) == {job[d].existing, job[d].cid} \ {Null}

\* C30: no step of a reconciler sweep stops or removes a running container,
\* none changes a container that a pipeline in progress uses, and a sweep
\* writes the Service row only as it read it: never over the row written
\* since by a completion hook.
C30_SweepSparesLiveState ==
  [][sweep' # sweep
       => /\ \A c \in Cids :
               containers[c].state = "running" => containers'[c].state = "running"
          /\ \A d \in NewDepIds :
               InProcessor(d) => \A c \in UsedBy(d) : containers'[c] = containers[c]
          /\ svc' # svc
               => /\ svc.status = sweep.status
                  /\ svc.containerId = sweep.cid]_vars

\* ---- C31 --------------------------------------------------------------------

\* The running containers that nothing accounts for: not the Service's
\* containerId and not made by a job that is still between its lease and the
\* end of its completion hook.
Orphans(cs, s, j) ==
  {c \in Cids :
     /\ cs[c].state = "running"
     /\ c # s.containerId
     /\ \A d \in NewDepIds :
          \/ j[d].pc \in {"none", "waiting", "done", "cancelled", "failed", "failedsvc"}
          \/ c \notin j[d].made}

\* C31: after a worker crashed over a container it had started, the next
\* reconciler run resolves the orphan: when the run ends no running
\* renderlite-<subdomain>-new container without a recorded SUCCESS is left, and
\* a running renderlite-<subdomain> container is the containerId of the Service.
C31_OrphanResolvedByNextRun ==
  [][(sweep.pc # "idle" /\ sweep'.pc = "idle")
       => Orphans(containers', svc', job') = {}]_vars

\* ---- C32 --------------------------------------------------------------------

\* The Deployment rows a service has.
Live(rt, s) == {r \in RowIds : rt.owner[r] = s /\ rt.rows[r] \notin {"NONE", "DELETED"}}

\* The KeepCount most recently created of a set of rows.
MostRecent(S) == {r \in S : Cardinality({q \in S : q > r}) < KeepCount}

C40_InFlightRowsKept ==
  [][\A r \in RowIds :
       /\ retention.rows[r] \in {"QUEUED", "BUILDING"} => retention'.rows[r] # "DELETED"
       /\ retention'.jobs[r] # "hookthrew"]_vars

\* ---- C33 --------------------------------------------------------------------

\* The deployment events of the worker among what a socket received.
FromWorker(e) == roomOf(e) = "deployment" /\ e.body # "QUEUED"

WorkerEvents(k) == SelectSeq(realtime.received[k], FromWorker)

\* The place of an event in the worker's publication order: BUILDING, the
\* log lines in the order of the appendLog calls, the terminal status.
rank(e) ==
  IF e.type = "deployment:log"
  THEN CHOOSE i \in 1..Len(LogLines) : LogLines[i] = e.body
  ELSE IF e.body = "BUILDING" THEN 0 ELSE realtime.lines + 1

\* C33: a socket subscribed to deployment:<id> receives the worker's
\* deployment:status and deployment:log events in the order of publication,
\* none missing between two it received: BUILDING before any log line, the
\* log lines in the order of the appendLog calls, the terminal status last.
C33_EventsInPublicationOrder ==
  \A i \in 1..Len(WorkerEvents(Owner)) - 1 :
    rank(WorkerEvents(Owner)[i + 1]) = rank(WorkerEvents(Owner)[i]) + 1

\* The owner's socket has received BUILDING, two log lines and the terminal
\* status.
C33_Witness ==
  /\ realtime.worker = "done"
  /\ Len(WorkerEvents(Owner)) = MaxLogs + 2
  /\ WorkerEvents(Owner)[1].body = "BUILDING"
  /\ WorkerEvents(Owner)[MaxLogs + 2].body \in {"SUCCESS", "FAILED"}

\* ---- C34 --------------------------------------------------------------------

\* C34: a subscriber of deployment:<id> never receives the QUEUED status,
\* emitted by the API process after the enqueue, after the BUILDING status
\* published by the worker that took the job.
C34_QueuedBeforeBuilding ==
  \A k \in Sockets :
    \A i, j \in 1..Len(realtime.received[k]) :
      (i < j /\ realtime.received[k][i].body = "BUILDING")
        => realtime.received[k][j].body # "QUEUED"

\* ---- C38 --------------------------------------------------------------------

Terminals(k) ==
  {realtime.received[k][i].body : i \in 1..Len(realtime.received[k])}
    \cap {"SUCCESS", "FAILED"}

C39_OnlyOwnerReceives ==
  \A k \in Sockets : k # Owner => realtime.received[k] = <<>>

\* ---- C35 --------------------------------------------------------------------

\* A step that is a metrics tick reaching the service's turn.
TickStep ==
  /\ metrics.pc = "idle"
  /\ metrics'.pc = "stats" \/ metrics'.last # metrics.last

\* C35: at every metrics tick the service is sampled exactly when a socket
\* is joined to service:<id> (and the service is RUNNING on a container): a
\* subscribed service is sampled on every tick, also after an earlier
\* container-not-found drop and a redeploy, and a service whose last
\* subscriber left is not.
C35_SampledIffSubscribed ==
  [][TickStep
       => ((metrics'.pc = "stats")
             <=> (metrics.room # {} /\ svc.status = "RUNNING" /\ svc.containerId # Null))]_vars

\* ---- C36 --------------------------------------------------------------------

\* The sleep the probe has to make after its k-th failed attempt: 1 s, 2 s,
\* 4 s, 8 s, then 10 s.
ExpectedWait(k) == IF k = 1 THEN 1000 ELSE IF k = 2 THEN 2000 ELSE IF k = 3 THEN 4000
                   ELSE IF k = 4 THEN 8000 ELSE 10000

RoutersFor(labels, host) ==
  {l.key : l \in {m \in labels : m.key[1] = "traefik.http.routers"
                                   /\ m.key[Len(m.key)] = "rule"
                                   /\ m.value = <<"Host", host>>}}

RuleLabels(labels) ==
  {l \in labels : l.key[1] = "traefik.http.routers" /\ l.key[Len(l.key)] = "rule"}

====
